---- MODULE Spec2Model ----
(***************************************************************************)
(* Model of the air-quality cache backend: the refresh coordinator         *)
(* (refresh_jobs.py), the upstream client's archival rate limiter          *)
(* (data_fetcher.py) and the measurement store (cache_manager.py).         *)
(*                                                                         *)
(* The specifications of the module:                                       *)
(*   Spec       the coordinator: run lock, semaphore, loops, sensor tasks  *)
(*   SpecFair   Spec with the fairness of the event loop's scheduling      *)
(*   SpecRate   the archival rate limiter under concurrent sensor tasks    *)
(*   SpecStore  the measurements table: initialize and cache_measurements  *)
(*   SpecPlan   run_one's choice of the fetch window                       *)
(*   SpecRequest  one _make_request call and its retries                   *)
(*   SpecSync   the sync_state table and the rows run_one writes            *)
(*   SpecJob    the job_state table and the rows _run_job writes            *)
(*   SpecRankingCache  the city_rankings table and GET /ranking            *)
(*   SpecRanking  compute_year_ranking over measurements and stations      *)
(*   SpecTrends   compute_trends and the annual statistics it caches        *)
(*   SpecApi    the callers of the upstream client in the API process     *)
(*   SpecFetch  fetch_sensor_data: chunks, pages, and run_one's record     *)
(*   SpecSched  the two loops against the clock, and the weekly due check  *)
(*   SpecExceed  one city's days against the threshold and the allowance  *)
(*   SpecSummary  the summary _refresh_targets returns for a run          *)
(*   SpecGap     hourly runs of one sensor over the hours of its history  *)
(*   SpecGapFair SpecGap where the hourly loop keeps running              *)
(* Each specification leaves the variables of the others unchanged.        *)
(***************************************************************************)
EXTENDS Integers, Sequences, FiniteSets, TLC

VARIABLES
    \* ---- coordinator (Spec) ----
    refresh_concurrency,  \* settings.refresh_concurrency
    run_lock,             \* self._run_lock: [created, locked]
    sem,                  \* self._sem: [created, value]
    stop_set,             \* self._stop is set
    loops_started,        \* self._tasks is non-empty
    pc,                   \* position of each caller of _run_job
    kind,                 \* job kind of each caller's current run
    cancel_req,           \* Task.cancel() was called on the loop task
    tasks,                \* per pool: how many sensor tasks are at each position
    \* ---- archival rate limiter (SpecRate) ----
    clock,                        \* time.time(), in seconds
    last_archival_request_time,   \* GiosDataFetcher._last_archival_request_time
    rate_pc,                      \* position of each sensor task in the fetcher
    rate_wake,                    \* end of each task's asyncio.sleep
    issued,                       \* times at which archival requests were issued
    \* ---- measurements table (SpecStore) ----
    measurements,         \* rows of the measurements table
    next_id,              \* next AUTOINCREMENT id
    unique_idx,           \* idx_measurements_unique_sensor_date exists
    initialized,          \* initialize() has run in this process
    repaired,             \* rows the repair pass of initialize() deleted
    last_rows,            \* the `rows` list of the latest cache_measurements call
    repeated,             \* the latest call wrote the rows of the call before it again
    reinitialized,        \* initialize() has run on a store it had already initialized
    \* ---- fetch window of one sensor (SpecPlan) ----
    refresh_overlap_seconds,         \* settings.refresh_overlap_seconds
    weekly_sweep_lookback_seconds,   \* settings.weekly_sweep_lookback_seconds
    history_years,                   \* settings.history_years
    cached_min,           \* get_min_measurement_date of the sensor (<< >> is None)
    cached_max,           \* get_max_measurement_date of the sensor (<< >> is None)
    plan_pc,              \* position of the run and of run_one
    window,               \* "hourly" or "weekly"
    now,                  \* `now` of the run, seconds since 1970-01-01
    outcome,              \* what run_one did last
    from_dt,              \* arguments of the fetch_sensor_data call
    to_dt,
    synced_max,           \* sync_state.max_date of the sensor (<< >> is NULL, or no row)
    \* ---- one _make_request call (SpecRequest) ----
    req_pc,               \* "idle", "send", "sleep", "returned" or "raised"
    is_archival,          \* the is_archival argument
    attempt,              \* the loop variable of `for attempt in range(max_retries)`
    wait_time,            \* the latest wait_time, in seconds
    responses,            \* what each client.get of the call ended in
    req_result,           \* "none", "json" (response.json()), "empty" ({}) or "error"
    \* ---- sync_state table (SpecSync) ----
    sync_state,           \* rows of the sync_state table, one per sensor
    sync_now,             \* _now() of the coordinator, in ticks
    sync_pc,              \* position of each sensor's run_one: "idle" or "running"
    attempt_at,           \* attempt_at of each sensor's running run_one
    table_max,            \* get_max_measurement_date of each sensor (<< >> is None)
    sync_before,          \* the sensor's row before the latest upsert_sync_state
    sync_call,            \* arguments of the latest upsert_sync_state
    \* ---- job_state table and _run_job (SpecJob) ----
    job_state,            \* rows of the job_state table, one per job kind
    job_now,              \* _now() of the coordinator, in ticks
    job_pc,               \* position of the run holding the run lock
    job_kind,             \* kind of that run
    started_at,           \* started_at of that run
    finished_at,          \* finished_at of that run (0 before it is read)
    job_error,            \* exception the handler of that run caught (<< >> if none)
    job_before,           \* row of the run's kind before the run wrote it
    job_wrote,            \* an upsert_job_state of the run has completed
    \* ---- city_rankings table and GET /ranking (SpecRankingCache) ----
    city_rankings,        \* rows of the city_rankings table, one per (year, pollutant, method)
    last_payload,         \* per key: the payload of the latest completed upsert_city_ranking
    rk_pc,                \* position of each GET /ranking request
    rk_key,               \* (year, pollutant, method) of each request
    rk_result,            \* cities compute_year_ranking returned to each request
    rk_response,          \* what each request returned
    \* ---- compute_year_ranking (SpecRanking) ----
    station_city,         \* stations table: city_name of each station ("" for none)
    hourly,               \* measurements of the pollutant: per station and day, the values of its rows
    ranking,              \* what the latest compute_year_ranking call returned
    \* ---- compute_trends and annual_city_stats (SpecTrends) ----
    annual_stats,         \* rows of annual_city_stats for one (pollutant, method, standard)
    trend_now,            \* datetime.utcnow(), in seconds
    current_year,         \* datetime.now().year
    available_years,      \* years with a non-null measurement of the pollutant
    year_result,          \* per year: the (city, exceedance_days) rows the year's query yields now
    trend_call,           \* the latest compute_trends call: what it met and what it computed
    trend_skipped,        \* some call has left a fresh current-year entry alone
    past_done,            \* per year: the rows of its first computation as a past year
    past_redone,          \* past years computed again after that
    past_kept,            \* past years a call left alone though their result had changed
    \* ---- who calls the upstream client (SpecApi) ----
    api_phase,            \* the API process: "down" before startup_event and after shutdown_event, "up" between
    stations_cached,      \* cache.get_stations() is non-empty
    sensors_cached,       \* cache.get_sensors(station_id) is non-empty for the station served
    api_job,              \* the trigger of the coordinator job run in progress, or "none"
    upstream_calls,       \* every call made on GiosDataFetcher so far: who made it, and which method
    last_route,           \* the read route served last, or "none"
    route_missed,         \* some /data request has met a station with no cached sensors
    resolution,           \* the latest _get_station_sensors call of a job run
    \* ---- fetch_sensor_data inside run_one (SpecFetch) ----
    fetch_pc,             \* fetch_sensor_data inside run_one: "idle", "page", "returned" or "done"
    start_date,           \* the start_date argument, in seconds
    end_date,             \* the end_date argument, in seconds
    current_start,        \* start of the current chunk
    chunk_end,            \* end of the current chunk
    chunk_no,             \* number of the current chunk, from 1
    page,                 \* the page to request next
    sent,                 \* the archival requests issued: their params and what came back
    all_measurements,     \* the measurements collected, each <<chunk, page, index>>
    run_result,           \* what run_one returned: (fetched_points, updated_ok, err)
    fetch_sync,           \* what run_one wrote to the sensor's sync_state row
    \* ---- the loops' timing (SpecSched) ----
    wall,                 \* _now(), in seconds
    refresh_interval_seconds,\* settings.refresh_interval_seconds
    weekly_sweep_interval_seconds,\* settings.weekly_sweep_interval_seconds
    stop_event,           \* self._stop is set
    loop_pc,              \* per loop: "off", "top", "read", "call", "run", "wait" or "exited"
    hourly_started_at,    \* started_at of _hourly_loop's current iteration
    weekly_now,           \* now of the current _maybe_run_weekly call
    deadline,             \* per loop: when its wait_for times out
    lock_holder,          \* who is inside _run_job's `async with self._get_lock()`, or "none"
    manual_pc,            \* POST /refresh/sweep: "idle", "call", "run" or "done"
    weekly_success_at,    \* job_state.last_success_at of weekly_sweep, or Never
    hourly_log,           \* the hourly loop so far: its first call, its runs and its latest wait
    poll_log,             \* the latest due check of the weekly loop
    sweep_log,            \* the latest sweep the weekly loop began, and the latest sweep that ended
    \* ---- one city's days against the limits (SpecExceed) ----
    city_days,            \* per aggregated value: the days of the year on which one city has it
    city_row,             \* the city's row of the ranking computed last, or NoCityRow
    \* ---- the summary of a run (SpecSummary) ----
    gathered,             \* results of asyncio.gather: the tuple each run_one returned, in target order
    gather_i,             \* how many results the loop of _refresh_targets has taken
    fetched_points,       \* fetched_points of _refresh_targets
    updated_sensors,      \* updated_sensors of _refresh_targets
    errors,               \* errors of _refresh_targets
    run_summary,          \* the dict _refresh_targets returned, or NoSummary
    \* ---- hourly runs of one sensor over the hours of its history (SpecGap) ----
    gap_now,              \* `now` of the hourly runs of one sensor, in hours
    upstream_first,       \* the hour of the sensor's first upstream measurement
    gap_cached,           \* the hours of the sensor's rows in measurements
    gap_pc,               \* where the hourly run of the sensor is
    gap_from,             \* from_dt of the run
    gap_to,               \* to_dt of the run
    gap_start,            \* current_start of fetch_sensor_data, as the first hour after it
    gap_chunks,           \* how many chunks fetch_sensor_data has asked for
    gap_got,              \* all_measurements of fetch_sensor_data
    faults,               \* how many requests can still fail
    missed                \* an hour a failed chunk of the full backfill left out, or NoHour

coordVars == <<refresh_concurrency, run_lock, sem, stop_set, loops_started,
               pc, kind, cancel_req, tasks>>

rateVars == <<clock, last_archival_request_time, rate_pc, rate_wake, issued>>

storeVars == <<measurements, next_id, unique_idx, initialized, repaired, last_rows,
               repeated, reinitialized>>

planVars == <<refresh_overlap_seconds, weekly_sweep_lookback_seconds, history_years,
              cached_min, cached_max, plan_pc, window, now, outcome, from_dt, to_dt, synced_max>>

requestVars == <<req_pc, is_archival, attempt, wait_time, responses, req_result>>

syncVars == <<sync_state, sync_now, sync_pc, attempt_at, table_max, sync_before, sync_call>>

jobVars == <<job_state, job_now, job_pc, job_kind, started_at, finished_at, job_error, job_before, job_wrote>>

rankingCacheVars == <<city_rankings, last_payload, rk_pc, rk_key, rk_result, rk_response>>

rankingVars == <<station_city, hourly, ranking>>

trendsVars == <<annual_stats, trend_now, current_year, available_years, year_result, trend_call, trend_skipped,
               past_done, past_redone, past_kept>>

apiVars == <<api_phase, stations_cached, sensors_cached, api_job, upstream_calls, last_route, route_missed,
            resolution>>

fetchVars == <<fetch_pc, start_date, end_date, current_start, chunk_end, chunk_no, page, sent, all_measurements, run_result, fetch_sync>>

schedVars == <<wall, refresh_interval_seconds, weekly_sweep_interval_seconds, stop_event, loop_pc, hourly_started_at, weekly_now, deadline, lock_holder, manual_pc, weekly_success_at, hourly_log, poll_log, sweep_log>>

exceedVars == <<city_days, city_row>>

summaryVars == <<gathered, gather_i, fetched_points, updated_sensors, errors, run_summary>>

gapVars == <<gap_now, upstream_first, gap_cached, gap_pc, gap_from, gap_to, gap_start, gap_chunks, gap_got, faults, missed>>

vars == <<coordVars, rateVars, storeVars, planVars, requestVars, syncVars, jobVars, rankingCacheVars, rankingVars, trendsVars, apiVars, fetchVars, schedVars, exceedVars, summaryVars, gapVars>>

\* what the actions of one part leave alone
otherThanCoord == <<rateVars, storeVars, planVars, requestVars, syncVars, jobVars, rankingCacheVars, rankingVars, trendsVars, apiVars, fetchVars, schedVars, exceedVars, summaryVars, gapVars>>
otherThanRate == <<coordVars, storeVars, planVars, requestVars, syncVars, jobVars, rankingCacheVars, rankingVars, trendsVars, apiVars, fetchVars, schedVars, exceedVars, summaryVars, gapVars>>
otherThanStore == <<coordVars, rateVars, planVars, requestVars, syncVars, jobVars, rankingCacheVars, rankingVars, trendsVars, apiVars, fetchVars, schedVars, exceedVars, summaryVars, gapVars>>
otherThanPlan == <<coordVars, rateVars, storeVars, requestVars, syncVars, jobVars, rankingCacheVars, rankingVars, trendsVars, apiVars, fetchVars, schedVars, exceedVars, summaryVars, gapVars>>
otherThanRequest == <<coordVars, rateVars, storeVars, planVars, syncVars, jobVars, rankingCacheVars, rankingVars, trendsVars, apiVars, fetchVars, schedVars, exceedVars, summaryVars, gapVars>>
otherThanSync == <<coordVars, rateVars, storeVars, planVars, requestVars, jobVars, rankingCacheVars, rankingVars, trendsVars, apiVars, fetchVars, schedVars, exceedVars, summaryVars, gapVars>>
otherThanJob == <<coordVars, rateVars, storeVars, planVars, requestVars, syncVars, rankingCacheVars, rankingVars, trendsVars, apiVars, fetchVars, schedVars, exceedVars, summaryVars, gapVars>>
otherThanRankingCache == <<coordVars, rateVars, storeVars, planVars, requestVars, syncVars, jobVars, rankingVars, trendsVars, apiVars, fetchVars, schedVars, exceedVars, summaryVars, gapVars>>
otherThanRanking == <<coordVars, rateVars, storeVars, planVars, requestVars, syncVars, jobVars, rankingCacheVars, trendsVars, apiVars, fetchVars, schedVars, exceedVars, summaryVars, gapVars>>
otherThanTrends == <<coordVars, rateVars, storeVars, planVars, requestVars, syncVars, jobVars, rankingCacheVars, rankingVars, apiVars, fetchVars, schedVars, exceedVars, summaryVars, gapVars>>
otherThanApi == <<coordVars, rateVars, storeVars, planVars, requestVars, syncVars, jobVars, rankingCacheVars, rankingVars, trendsVars, fetchVars, schedVars, exceedVars, summaryVars, gapVars>>
otherThanFetch == <<coordVars, rateVars, storeVars, planVars, requestVars, syncVars, jobVars, rankingCacheVars, rankingVars, trendsVars, apiVars, schedVars, exceedVars, summaryVars, gapVars>>
otherThanSched == <<coordVars, rateVars, storeVars, planVars, requestVars, syncVars, jobVars, rankingCacheVars, rankingVars, trendsVars, apiVars, fetchVars, exceedVars, summaryVars, gapVars>>
otherThanExceed == <<coordVars, rateVars, storeVars, planVars, requestVars, syncVars, jobVars, rankingCacheVars, rankingVars, trendsVars, apiVars, fetchVars, schedVars, summaryVars, gapVars>>
otherThanSummary == <<coordVars, rateVars, storeVars, planVars, requestVars, syncVars, jobVars, rankingCacheVars, rankingVars, trendsVars, apiVars, fetchVars, schedVars, exceedVars, gapVars>>
otherThanGap == <<coordVars, rateVars, storeVars, planVars, requestVars, syncVars, jobVars, rankingCacheVars, rankingVars, trendsVars, apiVars, fetchVars, schedVars, exceedVars, summaryVars>>

(***************************************************************************)
(* Bounds of the model.                                                    *)
(***************************************************************************)
MaxTasks == 3         \* sensor tasks alive at a time
MaxConcurrency == 2   \* largest refresh_concurrency
MaxFetchers == 2      \* sensor tasks inside fetch_sensor_data at a time
MaxRequests == 3      \* archival requests issued
MaxClock == 65        \* last second of the clock
MaxSensors == 2       \* sensor ids
MaxInstants == 1      \* distinct wall-clock readings of a measurement timestamp
MaxBatch == 2         \* measurements in one cache_measurements call
MaxLegacyRows == 3    \* rows found in the database file at startup
MaxRowId == 4         \* largest AUTOINCREMENT id handed out
LocalTimeSkew == 7200 \* upstream timestamps are local time, `now` is UTC
MaxSyncClock == 2     \* ticks of _now() in SpecSync
MaxJobClock == 3      \* ticks of _now() in SpecJob
MaxRankingYears == 2  \* years a ranking is asked for
MaxRankingRequests == 2   \* GET /ranking requests in progress at a time
MaxStations == 3      \* stations with measurements of the pollutant
MaxDays == 2          \* days of the year with measurements
MaxStationDays == 3   \* station-days that hold rows
MaxTrendYears == 2    \* years with measurements
MaxTrendSteps == 4    \* steps of the clock of SpecTrends
TrendStep == 1800     \* seconds in one step of that clock
MaxTotalPages == 2    \* largest totalPages an archival answer reports
MaxPageRows == 1      \* most measurements on one page

Max(a, b) == IF a >= b THEN a ELSE b
Min(a, b) == IF a <= b THEN a ELSE b

(***************************************************************************)
(* Coordinator.                                                            *)
(***************************************************************************)
JOB_HOURLY_REFRESH == "hourly_refresh"
JOB_WEEKLY_SWEEP == "weekly_sweep"
JobKinds == {JOB_HOURLY_REFRESH, JOB_WEEKLY_SWEEP}

Loops == {"hourly_loop", "weekly_loop"}
Callers == Loops \cup {"manual"}

\* _run_job positions at which the caller is inside `async with self._get_lock()`
InRun == {"setup", "gather", "gather_cancelling", "record_ok", "record_fail"}

\* run_one positions inside `async with self._get_semaphore()`
InBody == {"plan", "fetch", "store", "handler"}
TaskDone == {"ok", "err", "skipped", "raised", "cancelled"}
TaskPcs == {"wait_sem"} \cup InBody \cup TaskDone

\* pools of sensor tasks: those of each caller's current run, those left behind
\* by a run whose gather re-raised, and those left behind cancelled
Pools == Callers \cup {"left", "left_cancelled"}

ConcurrencyValues == 0..MaxConcurrency

NoTasks == [q \in TaskPcs |-> 0]

\* a lock made anew at every call, as `self._run_lock = asyncio.Lock()` would
GetLockFresh == [created |-> TRUE, locked |-> FALSE]

\* self._get_lock(): the lock is created on first use
GetLock == [created |-> TRUE, locked |-> IF run_lock.created THEN run_lock.locked ELSE FALSE]

\* a semaphore made anew at every call
GetSemaphoreFresh == [created |-> TRUE, value |-> Max(1, refresh_concurrency)]

\* self._get_semaphore(): created on first use with max(1, refresh_concurrency)
GetSemaphore ==
    IF sem.created THEN sem
    ELSE [created |-> TRUE, value |-> Max(1, refresh_concurrency)]

\* the tasks of pool k have been cancelled: their gather was cancelled
Cancelling(k) == k = "left_cancelled" \/ (k \in Callers /\ pc[k] = "gather_cancelling")

\* the gather of caller p ends early: its unfinished tasks go on in pool `to`,
\* the results of the finished ones are dropped
Leave(p, to) ==
    [k \in Pools |->
        IF k = p THEN NoTasks
        ELSE IF k = to
             THEN [q \in TaskPcs |-> IF q \in TaskDone THEN 0 ELSE tasks[to][q] + tasks[p][q]]
             ELSE tasks[k]]

\* one task of pool k goes from position a to position b; a result is kept
\* only for a gather that awaits it
Move(k, a, b) ==
    [tasks EXCEPT ![k] = [q \in TaskPcs |->
        IF q = a THEN tasks[k][q] - 1
        ELSE IF q = b /\ (b \notin TaskDone \/ k \in Callers) THEN tasks[k][q] + 1
        ELSE tasks[k][q]]]

\* the sensor tasks that have not ended
Alive ==
    LET RECURSIVE Sum(_, _)
        Sum(f, S) == IF S = {} THEN 0
                     ELSE LET x == CHOOSE y \in S : TRUE IN f[x] + Sum(f, S \ {x})
    IN Sum([k \in Pools |-> Sum(tasks[k], TaskPcs \ TaskDone)], Pools)

\* where a caller continues after _run_job returned or raised
AfterRun(p) == IF p \in Loops THEN "sleep" ELSE "idle"

CoordInit ==
    /\ refresh_concurrency \in ConcurrencyValues
    /\ run_lock = [created |-> FALSE, locked |-> FALSE]
    /\ sem = [created |-> FALSE, value |-> 0]
    /\ stop_set = FALSE
    /\ loops_started = FALSE
    /\ pc = [p \in Callers |-> IF p \in Loops THEN "not_started" ELSE "idle"]
    /\ kind = [p \in Callers |-> "none"]
    /\ cancel_req = [p \in Callers |-> FALSE]
    /\ tasks = [k \in Pools |-> NoTasks]

\* start(): creates the two loop tasks unless they exist
Start ==
    /\ UNCHANGED otherThanCoord
    /\ ~loops_started
    /\ loops_started' = TRUE
    /\ pc' = [p \in Callers |-> IF p \in Loops THEN "loop_top" ELSE pc[p]]
    /\ UNCHANGED <<refresh_concurrency, run_lock, sem, stop_set, kind, cancel_req,
                   tasks>>

\* `async with self._get_lock()`: taken at once when free, else the caller waits
EnterRunJob(p, k) ==
    /\ kind' = [kind EXCEPT ![p] = k]
    /\ IF GetLock.locked
          THEN /\ run_lock' = GetLock
               /\ pc' = [pc EXCEPT ![p] = "wait_lock"]
          ELSE /\ run_lock' = [GetLock EXCEPT !.locked = TRUE]
               /\ pc' = [pc EXCEPT ![p] = "setup"]
    /\ UNCHANGED <<refresh_concurrency, sem, stop_set, loops_started, cancel_req, tasks>>

\* _hourly_loop: `while not stop_event.is_set(): await self.run_hourly_once()`
HourlyLoopTop ==
    /\ UNCHANGED otherThanCoord
    /\ pc["hourly_loop"] = "loop_top"
    /\ ~cancel_req["hourly_loop"]
    /\ IF stop_set
          THEN /\ pc' = [pc EXCEPT !["hourly_loop"] = "exited"]
               /\ UNCHANGED <<refresh_concurrency, run_lock, sem, stop_set, loops_started,
                              kind, cancel_req, tasks>>
          ELSE EnterRunJob("hourly_loop", JOB_HOURLY_REFRESH)

\* _weekly_loop / _maybe_run_weekly: runs the sweep when it is due
WeeklyLoopTop ==
    /\ UNCHANGED otherThanCoord
    /\ pc["weekly_loop"] = "loop_top"
    /\ ~cancel_req["weekly_loop"]
    /\ IF stop_set
          THEN /\ pc' = [pc EXCEPT !["weekly_loop"] = "exited"]
               /\ UNCHANGED <<refresh_concurrency, run_lock, sem, stop_set, loops_started,
                              kind, cancel_req, tasks>>
          ELSE \/ EnterRunJob("weekly_loop", JOB_WEEKLY_SWEEP)
               \/ /\ pc' = [pc EXCEPT !["weekly_loop"] = "sleep"]
                  /\ UNCHANGED <<refresh_concurrency, run_lock, sem, stop_set, loops_started,
                                 kind, cancel_req, tasks>>

\* run_hourly_once / run_weekly_once called from a route
ManualRun ==
    /\ UNCHANGED otherThanCoord
    /\ pc["manual"] = "idle"
    /\ \E k \in JobKinds : EnterRunJob("manual", k)

\* a waiter obtains the released lock
AcquireLock(p) ==
    /\ UNCHANGED otherThanCoord
    /\ pc[p] = "wait_lock"
    /\ ~cancel_req[p]
    /\ ~run_lock.locked
    /\ run_lock' = [run_lock EXCEPT !.locked = TRUE]
    /\ pc' = [pc EXCEPT ![p] = "setup"]
    /\ UNCHANGED <<refresh_concurrency, sem, stop_set, loops_started, kind, cancel_req,
                   tasks>>

\* _run_hourly_refresh / _run_weekly_sweep up to the creation of the tasks of
\* _refresh_targets; enumerating stations and sensors may raise
Setup(p) ==
    /\ UNCHANGED otherThanCoord
    /\ pc[p] = "setup"
    /\ ~cancel_req[p]
    /\ \/ /\ pc' = [pc EXCEPT ![p] = "record_fail"]
          /\ tasks' = tasks
       \/ \E n \in 0..(MaxTasks - Alive) :
            /\ pc' = [pc EXCEPT ![p] = IF n = 0 THEN "record_ok" ELSE "gather"]
            /\ tasks' = [tasks EXCEPT ![p] = [NoTasks EXCEPT !["wait_sem"] = n]]
    /\ UNCHANGED <<refresh_concurrency, run_lock, sem, stop_set, loops_started, kind,
                   cancel_req>>

\* the permit is not given back
SemKeep == sem

\* a task that leaves the body of `async with self._get_semaphore()` releases it
SemRelease == [sem EXCEPT !.value = sem.value + 1]

\* run_one: `async with self._get_semaphore()`
TaskAcquireSem(k) ==
    /\ UNCHANGED otherThanCoord
    /\ tasks[k]["wait_sem"] > 0
    /\ ~Cancelling(k)
    /\ GetSemaphore.value > 0
    /\ sem' = [GetSemaphore EXCEPT !.value = GetSemaphore.value - 1]
    /\ tasks' = Move(k, "wait_sem", "plan")
    /\ UNCHANGED <<refresh_concurrency, run_lock, stop_set, loops_started, pc, kind,
                   cancel_req>>

\* run_one: the window is chosen (reading the cached dates in hourly mode);
\* it ends in the call of fetch_sensor_data, in `return (0, False, None)`, or
\* in an exception
TaskPlan(k) ==
    /\ UNCHANGED otherThanCoord
    /\ tasks[k]["plan"] > 0
    /\ ~Cancelling(k)
    /\ \/ /\ tasks' = Move(k, "plan", "fetch")
          /\ sem' = sem
       \/ /\ tasks' = Move(k, "plan", "handler")
          /\ sem' = sem
       \/ /\ tasks' = Move(k, "plan", "skipped")
          /\ sem' = SemRelease
    /\ UNCHANGED <<refresh_concurrency, run_lock, stop_set, loops_started, pc, kind,
                   cancel_req>>

\* run_one: fetch_sensor_data returns (it catches the errors of its requests)
TaskFetch(k) ==
    /\ UNCHANGED otherThanCoord
    /\ tasks[k]["fetch"] > 0
    /\ ~Cancelling(k)
    /\ tasks' = Move(k, "fetch", "store")
    /\ UNCHANGED <<refresh_concurrency, run_lock, sem, stop_set, loops_started, pc, kind,
                   cancel_req>>

\* run_one: cache_measurements, get_max_measurement_date, upsert_sync_state
TaskStore(k) ==
    /\ UNCHANGED otherThanCoord
    /\ tasks[k]["store"] > 0
    /\ ~Cancelling(k)
    /\ \/ /\ tasks' = Move(k, "store", "ok")
          /\ sem' = SemRelease
       \/ /\ tasks' = Move(k, "store", "handler")
          /\ sem' = sem
    /\ UNCHANGED <<refresh_concurrency, run_lock, stop_set, loops_started, pc, kind,
                   cancel_req>>

\* run_one: `except Exception`: upsert_sync_state, which may raise itself
TaskHandler(k) ==
    /\ UNCHANGED otherThanCoord
    /\ tasks[k]["handler"] > 0
    /\ ~Cancelling(k)
    /\ \/ tasks' = Move(k, "handler", "err")
       \/ tasks' = Move(k, "handler", "raised")
    /\ sem' = SemRelease
    /\ UNCHANGED <<refresh_concurrency, run_lock, stop_set, loops_started, pc, kind,
                   cancel_req>>

\* CancelledError is thrown into a sensor task at its await
TaskCancelled(k) ==
    /\ UNCHANGED otherThanCoord
    /\ Cancelling(k)
    /\ \E q \in {"wait_sem"} \cup InBody :
         /\ tasks[k][q] > 0
         /\ tasks' = Move(k, q, "cancelled")
         /\ sem' = IF q \in InBody THEN SemRelease ELSE sem
    /\ UNCHANGED <<refresh_concurrency, run_lock, stop_set, loops_started, pc, kind,
                   cancel_req>>

\* _refresh_targets: `await asyncio.gather(*tasks)` returns all results
GatherDone(p) ==
    /\ UNCHANGED otherThanCoord
    /\ pc[p] = "gather"
    /\ ~cancel_req[p]
    /\ \A q \in TaskPcs \ {"ok", "err", "skipped"} : tasks[p][q] = 0
    /\ pc' = [pc EXCEPT ![p] = "record_ok"]
    /\ tasks' = [tasks EXCEPT ![p] = NoTasks]
    /\ UNCHANGED <<refresh_concurrency, run_lock, sem, stop_set, loops_started, kind,
                   cancel_req>>

\* gather re-raises the first exception of a task; the other tasks keep running
GatherRaise(p) ==
    /\ UNCHANGED otherThanCoord
    /\ pc[p] = "gather"
    /\ ~cancel_req[p]
    /\ tasks[p]["raised"] > 0
    /\ pc' = [pc EXCEPT ![p] = "record_fail"]
    /\ tasks' = Leave(p, "left")
    /\ UNCHANGED <<refresh_concurrency, run_lock, sem, stop_set, loops_started, kind,
                   cancel_req>>

\* end of `async with self._get_lock()`
Release(p) ==
    /\ UNCHANGED otherThanCoord
    /\ run_lock' = [run_lock EXCEPT !.locked = FALSE]
    /\ kind' = [kind EXCEPT ![p] = "none"]

\* _run_job: upsert_job_state of a successful run, then return; an exception
\* of the upsert goes to the `except Exception` branch
RecordOk(p) ==
    /\ UNCHANGED otherThanCoord
    /\ pc[p] = "record_ok"
    /\ ~cancel_req[p]
    /\ \/ /\ Release(p)
          /\ pc' = [pc EXCEPT ![p] = AfterRun(p)]
       \/ /\ pc' = [pc EXCEPT ![p] = "record_fail"]
          /\ UNCHANGED <<run_lock, kind>>
    /\ UNCHANGED <<refresh_concurrency, sem, stop_set, loops_started, cancel_req, tasks>>

\* _run_job: upsert_job_state of a failed run, then `raise`; the loops log the
\* exception and go on, a route reports it
RecordFail(p) ==
    /\ UNCHANGED otherThanCoord
    /\ pc[p] = "record_fail"
    /\ ~cancel_req[p]
    /\ Release(p)
    /\ pc' = [pc EXCEPT ![p] = AfterRun(p)]
    /\ UNCHANGED <<refresh_concurrency, sem, stop_set, loops_started, cancel_req, tasks>>

\* the loops' `await asyncio.wait_for(stop_event.wait(), timeout=...)`
Sleep(p) ==
    /\ UNCHANGED otherThanCoord
    /\ p \in Loops
    /\ pc[p] = "sleep"
    /\ ~cancel_req[p]
    /\ pc' = [pc EXCEPT ![p] = "loop_top"]
    /\ UNCHANGED <<refresh_concurrency, run_lock, sem, stop_set, loops_started, kind,
                   cancel_req, tasks>>

\* stop(): sets the stop event and cancels the loop tasks
Stop ==
    /\ UNCHANGED otherThanCoord
    /\ ~stop_set
    /\ stop_set' = TRUE
    /\ cancel_req' = [p \in Callers |->
                        p \in Loops /\ pc[p] \notin {"not_started", "exited"}]
    /\ UNCHANGED <<refresh_concurrency, run_lock, sem, loops_started, pc, kind, tasks>>

\* CancelledError reaches a loop task outside gather: `async with` releases the
\* lock when it is held, `except Exception` does not catch it
LoopCancelled(p) ==
    /\ UNCHANGED otherThanCoord
    /\ cancel_req[p]
    /\ pc[p] \in {"loop_top", "wait_lock", "setup", "record_ok", "record_fail", "sleep"}
    /\ pc' = [pc EXCEPT ![p] = "exited"]
    /\ cancel_req' = [cancel_req EXCEPT ![p] = FALSE]
    /\ run_lock' = IF pc[p] \in InRun THEN [run_lock EXCEPT !.locked = FALSE] ELSE run_lock
    /\ kind' = [kind EXCEPT ![p] = "none"]
    /\ UNCHANGED <<refresh_concurrency, sem, stop_set, loops_started, tasks>>

\* cancelling a task that awaits gather: while the gather future is pending
\* its unfinished tasks are cancelled; when it is done already (every task has
\* ended, or one has raised) nothing more is cancelled and CancelledError is
\* thrown into the run as it wakes up
GatherCancel(p) ==
    /\ UNCHANGED otherThanCoord
    /\ cancel_req[p]
    /\ pc[p] = "gather"
    /\ IF tasks[p]["raised"] = 0 /\ \E q \in {"wait_sem"} \cup InBody : tasks[p][q] > 0
          THEN /\ pc' = [pc EXCEPT ![p] = "gather_cancelling"]
               /\ UNCHANGED <<run_lock, kind, cancel_req, tasks>>
          ELSE /\ pc' = [pc EXCEPT ![p] = "exited"]
               /\ cancel_req' = [cancel_req EXCEPT ![p] = FALSE]
               /\ Release(p)
               /\ tasks' = Leave(p, "left")
    /\ UNCHANGED <<refresh_concurrency, sem, stop_set, loops_started>>

\* the cancelled gather ends with the first task that ends cancelled: the run
\* leaves _run_job by CancelledError
GatherCancelled(p) ==
    /\ UNCHANGED otherThanCoord
    /\ pc[p] = "gather_cancelling"
    /\ tasks[p]["cancelled"] > 0
    /\ cancel_req' = [cancel_req EXCEPT ![p] = FALSE]
    /\ pc' = [pc EXCEPT ![p] = "exited"]
    /\ Release(p)
    /\ tasks' = Leave(p, "left_cancelled")
    /\ UNCHANGED <<refresh_concurrency, sem, stop_set, loops_started>>

CoordNext ==
    \/ Start
    \/ HourlyLoopTop
    \/ WeeklyLoopTop
    \/ ManualRun
    \/ \E p \in Callers : AcquireLock(p)
    \/ \E p \in Callers : Setup(p)
    \/ \E k \in Pools : TaskAcquireSem(k)
    \/ \E k \in Pools : TaskPlan(k)
    \/ \E k \in Pools : TaskFetch(k)
    \/ \E k \in Pools : TaskStore(k)
    \/ \E k \in Pools : TaskHandler(k)
    \/ \E k \in Pools : TaskCancelled(k)
    \/ \E p \in Callers : GatherDone(p)
    \/ \E p \in Callers : GatherRaise(p)
    \/ \E p \in Callers : RecordOk(p)
    \/ \E p \in Callers : RecordFail(p)
    \/ \E p \in Loops : Sleep(p)
    \/ Stop
    \/ \E p \in Loops : LoopCancelled(p)
    \/ \E p \in Loops : GatherCancel(p)
    \/ \E p \in Loops : GatherCancelled(p)

(***************************************************************************)
(* Archival rate limiter of the upstream client.                           *)
(***************************************************************************)
ARCHIVAL_MIN_INTERVAL == 30

Fetchers == 1..MaxFetchers

\* the program has run for a while: time.time() is far from the initial
\* _last_archival_request_time of 0.0
RateInit ==
    /\ clock = ARCHIVAL_MIN_INTERVAL
    /\ last_archival_request_time = 0
    /\ rate_pc = [t \in Fetchers |-> "idle"]
    /\ rate_wake = [t \in Fetchers |-> 0]
    /\ issued = << >>

\* the variables of the rate limiter under the other specifications
RateIdle ==
    /\ clock = 0
    /\ last_archival_request_time = 0
    /\ rate_pc = << >>
    /\ rate_wake = << >>
    /\ issued = << >>

\* _rate_limited_archival_request: `self._last_archival_request_time =
\* time.time()`, then the request of _make_request goes out
IssueArchivalRequest(t) ==
    /\ last_archival_request_time' = clock
    /\ issued' = Append(issued, clock)
    /\ rate_pc' = [rate_pc EXCEPT ![t] = "requesting"]

\* _rate_limited_archival_request, up to its first await: a task that finds
\* the interval not elapsed sleeps for the rest of it
RateLimitedCall(t) ==
    /\ UNCHANGED otherThanRate
    /\ rate_pc[t] = "idle"
    /\ Len(issued) < MaxRequests
    /\ LET elapsed == clock - last_archival_request_time
       IN IF elapsed < ARCHIVAL_MIN_INTERVAL
             THEN /\ rate_pc' = [rate_pc EXCEPT ![t] = "sleeping"]
                  /\ rate_wake' = [rate_wake EXCEPT ![t] =
                                      clock + (ARCHIVAL_MIN_INTERVAL - elapsed)]
                  /\ UNCHANGED <<last_archival_request_time, issued>>
             ELSE /\ IssueArchivalRequest(t)
                  /\ UNCHANGED rate_wake
    /\ UNCHANGED clock

\* _rate_limited_archival_request after `await asyncio.sleep(wait_time)`
RateLimitedWake(t) ==
    /\ UNCHANGED otherThanRate
    /\ rate_pc[t] = "sleeping"
    /\ clock >= rate_wake[t]
    /\ IssueArchivalRequest(t)
    /\ UNCHANGED <<clock, rate_wake>>

\* _make_request returns; fetch_sensor_data goes on to its next page or chunk,
\* or returns and the next sensor task takes its place
MakeRequestReturns(t) ==
    /\ UNCHANGED otherThanRate
    /\ rate_pc[t] = "requesting"
    /\ rate_pc' = [rate_pc EXCEPT ![t] = "idle"]
    /\ UNCHANGED <<clock, last_archival_request_time, rate_wake, issued>>

\* time passes
Tick ==
    /\ UNCHANGED otherThanRate
    /\ \E d \in {1, ARCHIVAL_MIN_INTERVAL - 1, ARCHIVAL_MIN_INTERVAL} :
         /\ clock + d <= MaxClock
         /\ clock' = clock + d
    /\ UNCHANGED <<last_archival_request_time, rate_pc, rate_wake, issued>>

RateNext ==
    \/ \E t \in Fetchers : RateLimitedCall(t)
    \/ \E t \in Fetchers : RateLimitedWake(t)
    \/ \E t \in Fetchers : MakeRequestReturns(t)
    \/ Tick

(***************************************************************************)
(* The measurements table of the cache.                                    *)
(***************************************************************************)
Sensors == 1..MaxSensors
Instants == 1..MaxInstants
Values == {"None", "12.5"}

\* the "Data" field of an upstream measurement: 'YYYY-MM-DD HH:MM:SS',
\* 'YYYY-MM-DDTHH:MM:SS', 'YYYY-MM-DDTHH:MM:SSZ', text that is no date, or
\* a missing / empty field
DateInputs ==
    [form : {"space", "T", "Z"}, instant : Instants]
        \cup {[form |-> "malformed", instant |-> 0], [form |-> "missing", instant |-> 0]}

\* a measurement of the upstream response; the value of one that is skipped
\* plays no part
MeasurementInputs ==
    {m \in [Data : DateInputs, Wartosc : Values] :
        m.Data.form \in {"malformed", "missing"} => m.Wartosc = "None"}

Batches == UNION {[1..n -> MeasurementInputs] : n \in 0..MaxBatch}

\* the value bound to the date column: datetime.fromisoformat(date_str.replace(
\* "Z", "+00:00")), written by the sqlite3 adapter as isoformat(" ")
StoredDate(d) ==
    [instant |-> d.instant, offset |-> IF d.form = "Z" THEN "+00:00" ELSE ""]

StoredDates == [instant : Instants, offset : {"", "+00:00"}]

\* `if not date_str: continue` and `except Exception: continue`
Parses(m) == m.Data.form \in {"space", "T", "Z"}

\* the `rows` list built by cache_measurements
ParsedRows(sensor_id, batch) ==
    LET kept == SelectSeq(batch, Parses)
    IN [i \in 1..Len(kept) |->
           [sensor_id |-> sensor_id, date |-> StoredDate(kept[i].Data),
            value |-> kept[i].Wartosc]]

Key(r) == <<r.sensor_id, r.date>>

Keys == Sensors \X StoredDates

\* the table with the new row, which takes the next AUTOINCREMENT id
WithRow(table, id, row) ==
    table \cup {[id |-> id, sensor_id |-> row.sensor_id, date |-> row.date,
                 value |-> row.value]}

\* an INSERT that no unique index constrains
InsertUnconstrained(table, id, row) == WithRow(table, id, row)

\* INSERT OR IGNORE: the row already in the table stays
InsertOrIgnore(table, id, row) ==
    IF \E r \in table : Key(r) = Key(row) THEN table ELSE WithRow(table, id, row)

\* the rows in conflict with the new row are deleted, and a row is inserted
\* only where there was none
DeleteOrInsert(table, id, row) ==
    IF \E r \in table : Key(r) = Key(row)
        THEN {r \in table : Key(r) # Key(row)}
        ELSE WithRow(table, id, row)

\* INSERT OR REPLACE: with the unique index, the rows in conflict with the new
\* row are deleted before it is inserted
InsertOrReplace(table, id, row) ==
    WithRow(IF unique_idx THEN {r \in table : Key(r) # Key(row)} ELSE table, id, row)

\* executemany: one statement per row, in list order
RECURSIVE ExecuteMany(_, _, _)
ExecuteMany(table, id, rows) ==
    IF rows = << >> THEN table
    ELSE ExecuteMany(InsertOrReplace(table, id, Head(rows)), id + 1, Tail(rows))

\* the row of the smallest id of each key is kept
KeepOldest(table) ==
    {r \in table : \A q \in table : Key(q) = Key(r) => q.id >= r.id}

\* DELETE FROM measurements WHERE id NOT IN (SELECT MAX(id) ... GROUP BY
\* sensor_id, date)
KeepNewest(table) ==
    {r \in table : \A q \in table : Key(q) = Key(r) => q.id <= r.id}

UniqueKeys(table) == \A r, q \in table : Key(r) = Key(q) => r = q

\* the rows of a database file written by an earlier version or an earlier run
LegacyTables ==
    {{[id |-> i, sensor_id |-> f[i][1][1], date |-> f[i][1][2], value |-> f[i][2]] : i \in ids} :
        f \in [1..MaxLegacyRows -> Keys \X Values], ids \in SUBSET (1..MaxLegacyRows)}

\* AUTOINCREMENT: one more than the largest id in use
NextRowId(table) ==
    IF table = {} THEN 1 ELSE 1 + (CHOOSE i \in {r.id : r \in table} : \A r \in table : r.id <= i)

StoreInit ==
    /\ unique_idx \in BOOLEAN
    /\ measurements \in LegacyTables
    /\ unique_idx => UniqueKeys(measurements)
    /\ next_id = NextRowId(measurements)
    /\ initialized = FALSE
    /\ repaired = 0
    /\ last_rows = << >>
    /\ repeated = FALSE
    /\ reinitialized = FALSE

\* the variables of the table under the other specifications
StoreIdle ==
    /\ unique_idx = FALSE
    /\ measurements = {}
    /\ next_id = 0
    /\ initialized = FALSE
    /\ repaired = 0
    /\ last_rows = << >>
    /\ repeated = FALSE
    /\ reinitialized = FALSE

\* initialize(), called by startup_event before the coordinator starts, at
\* every start of the process
Initialize ==
    /\ UNCHANGED otherThanStore
    /\ initialized' = TRUE
    /\ reinitialized' = (reinitialized \/ initialized)
    /\ IF unique_idx
          THEN UNCHANGED <<measurements, unique_idx, repaired>>
          ELSE /\ measurements' = KeepNewest(measurements)
               /\ repaired' = Cardinality(measurements) - Cardinality(KeepNewest(measurements))
               /\ unique_idx' = TRUE
    /\ UNCHANGED <<next_id, last_rows, repeated>>

\* cache_measurements(sensor_id, ..., measurements): one transaction
CacheMeasurements(sensor_id, batch) ==
    /\ UNCHANGED otherThanStore
    /\ initialized
    /\ LET rows == ParsedRows(sensor_id, batch)
       IN /\ next_id + Len(rows) - 1 <= MaxRowId
          /\ measurements' = ExecuteMany(measurements, next_id, rows)
          /\ next_id' = next_id + Len(rows)
          /\ last_rows' = rows
          /\ repeated' = (rows # << >> /\ last_rows = rows)
    /\ UNCHANGED <<unique_idx, initialized, repaired, reinitialized>>

StoreNext ==
    \/ Initialize
    \/ \E sensor_id \in Sensors, batch \in Batches : CacheMeasurements(sensor_id, batch)

(***************************************************************************)
(* The fetch window run_one computes for a sensor.  A naive datetime is    *)
(* its number of seconds since 1970-01-01 00:00:00.                        *)
(***************************************************************************)
IsLeap(y) == ((y % 4) = 0 /\ (y % 100) # 0) \/ (y % 400) = 0

DaysInMonth(y, m) ==
    IF m = 2 THEN (IF IsLeap(y) THEN 29 ELSE 28)
    ELSE IF m \in {4, 6, 9, 11} THEN 30 ELSE 31

\* days from 1970-01-01 to the date y-m-d
DaysFromCivil(y, m, d) ==
    LET yy == IF m <= 2 THEN y - 1 ELSE y
        era == yy \div 400
        yoe == yy - era * 400
        doy == (153 * (IF m > 2 THEN m - 3 ELSE m + 9) + 2) \div 5 + d - 1
        doe == yoe * 365 + yoe \div 4 - yoe \div 100 + doy
    IN era * 146097 + doe - 719468

\* datetime(y, m, d, hh, mm, ss)
DateTime(y, m, d, hh, mm, ss) == DaysFromCivil(y, m, d) * 86400 + hh * 3600 + mm * 60 + ss

\* year, month and day of a datetime
Civil(t) ==
    LET z == t \div 86400 + 719468
        era == z \div 146097
        doe == z - era * 146097
        yoe == (doe - doe \div 1460 + doe \div 36524 - doe \div 146096) \div 365
        doy == doe - (365 * yoe + yoe \div 4 - yoe \div 100)
        mp == (5 * doy + 2) \div 153
        m == IF mp < 10 THEN mp + 3 ELSE mp - 9
    IN [year |-> yoe + era * 400 + (IF m <= 2 THEN 1 ELSE 0), month |-> m,
        day |-> doy - (153 * mp + 2) \div 5 + 1]

\* t - timedelta(days=365 * years)
MinusYears365(t, years) == t - 365 * 86400 * years

\* t - relativedelta(years=years): the same month, day and time of day in the
\* earlier year, the day cut to the length of the month
MinusYears(t, years) ==
    LET c == Civil(t)
        y == c.year - years
        d == Min(c.day, DaysInMonth(y, c.month))
    IN DaysFromCivil(y, c.month, d) * 86400 + (t % 86400)

OverlapValues == {-3600, 0, 172800}
LookbackValues == {-3600, 0, 604800}
HistoryYearsValues == {-1, 0, 15}

\* `now` of the runs
Nows == {DateTime(2024, 2, 29, 12, 0, 0), DateTime(2024, 6, 1, 0, 0, 0)}

\* timestamps of upstream measurements
Timestamps ==
    {DateTime(2005, 1, 1, 0, 0, 0), DateTime(2009, 6, 1, 0, 0, 0), DateTime(2020, 1, 1, 0, 0, 0),
     DateTime(2024, 2, 29, 13, 0, 0), DateTime(2024, 5, 30, 0, 0, 0),
     DateTime(2024, 5, 31, 23, 30, 0), DateTime(2024, 6, 1, 0, 30, 0)}

\* a date read back from the table: 'YYYY-MM-DD HH:MM:SS' gives a naive
\* datetime, 'YYYY-MM-DD HH:MM:SS+00:00' an aware one
CachedDates == [t : Timestamps, aware : BOOLEAN]

\* the order of MIN(date) and MAX(date) on the stored text
TextLeq(a, b) == a.t < b.t \/ (a.t = b.t /\ (a.aware => b.aware))

\* what the upstream can have delivered by the time of a run
Delivered(n) == {d \in CachedDates : d.t <= n + LocalTimeSkew}

None == << >>

\* `overlap or timedelta(0)` of the run: weekly runs pass overlap=None
OverlapOrZero == IF window = "hourly" THEN refresh_overlap_seconds ELSE 0

\* `if from_dt > to_dt: from_dt = to_dt - (overlap or timedelta(seconds=0))`,
\* then the call fetch_sensor_data(sensor_id, from_dt, to_dt)
FetchCall(f, t) ==
    [outcome |-> "fetch", from_dt |-> IF f > t THEN t - OverlapOrZero ELSE f, to_dt |-> t]

\* `return (0, False, None)`
Skipped == [outcome |-> "skipped", from_dt |-> 0, to_dt |-> 0]

\* TypeError of a comparison between a naive and an aware datetime, caught
\* by `except Exception`
Failed == [outcome |-> "error", from_dt |-> 0, to_dt |-> 0]

\* `from_dt = now - lookback`
WeeklyFromNow(n, lookback) == n
WeeklyFrom(n, lookback) == n - lookback

\* `from_dt = max_dt - (overlap or timedelta(0))`
DeltaFromNoOverlap(max_t, overlap) == max_t
DeltaFrom(max_t, overlap) == max_t - overlap

\* `to_dt = min_dt if min_dt else now`
BackfillToNow(min_dt, n) == n
BackfillTo(min_dt, n) == IF min_dt # None THEN min_dt[1].t ELSE n

\* `history_start = now - relativedelta(years=history_years) if history_years
\* else None`
HistoryStart == IF history_years # 0 THEN <<MinusYears(now, history_years)>> ELSE None

\* max_dt is read from sync_state.max_date
MaxFromSyncState(table_max_date, sync_max_date) == sync_max_date

\* `max_dt = await self.cache.get_max_measurement_date(sensor_id)`: MAX(date)
\* of the sensor's measurements, whatever its sync_state row holds
MaxForPlan(table_max_date, sync_max_date) == table_max_date

\* run_one from `to_dt = now` to the call of fetch_sensor_data
PlanWindow(max_dt, min_dt) ==
    IF window = "weekly"
       THEN FetchCall(WeeklyFrom(now, weekly_sweep_lookback_seconds), now)
    ELSE IF max_dt = None
       THEN (IF HistoryStart = None THEN Skipped ELSE FetchCall(HistoryStart[1], now))
    ELSE IF HistoryStart # None /\ (min_dt = None \/ min_dt[1].aware
                                    \/ min_dt[1].t > HistoryStart[1])
       THEN (IF min_dt # None /\ min_dt[1].aware
                THEN Failed
                ELSE FetchCall(HistoryStart[1], BackfillTo(min_dt, now)))
    ELSE IF max_dt[1].aware
       THEN Failed
       ELSE FetchCall(DeltaFrom(max_dt[1].t, OverlapOrZero), now)

PlanInit ==
    /\ refresh_overlap_seconds \in OverlapValues
    /\ weekly_sweep_lookback_seconds \in LookbackValues
    /\ history_years \in HistoryYearsValues
    /\ now = DateTime(2024, 2, 29, 12, 0, 0)
    /\ \/ cached_min = None /\ cached_max = None
       \/ \E lo, hi \in Delivered(now) :
             /\ TextLeq(lo, hi)
             /\ cached_min = <<lo>>
             /\ cached_max = <<hi>>
    /\ plan_pc = "idle"
    /\ window = "hourly"
    /\ outcome = "none"
    /\ from_dt = 0
    /\ to_dt = 0
    /\ (synced_max = None \/ synced_max = cached_max)

\* the variables of the window under the other specifications
PlanIdle ==
    /\ refresh_overlap_seconds = 0
    /\ weekly_sweep_lookback_seconds = 0
    /\ history_years = 0
    /\ now = 0
    /\ cached_min = None
    /\ cached_max = None
    /\ plan_pc = "idle"
    /\ window = "hourly"
    /\ outcome = "none"
    /\ from_dt = 0
    /\ to_dt = 0
    /\ synced_max = None

\* a run begins: `now = _now()` and the parameters of _refresh_targets
BeginRun(w) ==
    /\ plan_pc = "idle"
    /\ plan_pc' = "run_one"
    /\ window' = w
    /\ \E n \in Nows : n >= now /\ now' = n
    /\ outcome' = "none"
    /\ from_dt' = 0
    /\ to_dt' = 0
    /\ UNCHANGED <<refresh_overlap_seconds, weekly_sweep_lookback_seconds, history_years,
                   cached_min, cached_max, synced_max>>

\* _run_hourly_refresh
RunHourlyRefresh ==
    /\ UNCHANGED otherThanPlan
    /\ BeginRun("hourly")

\* _run_weekly_sweep
RunWeeklySweep ==
    /\ UNCHANGED otherThanPlan
    /\ BeginRun("weekly")

\* run_one up to the call of fetch_sensor_data, or to its return without one
RunOnePlan ==
    /\ UNCHANGED otherThanPlan
    /\ plan_pc = "run_one"
    /\ LET plan == PlanWindow(MaxForPlan(cached_max, synced_max), cached_min)
       IN /\ outcome' = plan.outcome
          /\ from_dt' = plan.from_dt
          /\ to_dt' = plan.to_dt
          /\ plan_pc' = IF plan.outcome = "fetch" THEN "fetching" ELSE "idle"
    /\ UNCHANGED <<refresh_overlap_seconds, weekly_sweep_lookback_seconds, history_years,
                   cached_min, cached_max, window, now, synced_max>>

\* fetch_sensor_data returns and run_one stores what it got; the success
\* write sets sync_state.max_date to max_after, and where a later step of
\* the try block raises, the failure write (max_date=None) leaves it
RunOneStore ==
    /\ UNCHANGED otherThanPlan
    /\ plan_pc = "fetching"
    /\ plan_pc' = "idle"
    /\ outcome' = "stored"
    /\ \/ UNCHANGED <<cached_min, cached_max>>
       \/ \E lo, hi \in Delivered(now) :
             /\ TextLeq(lo, hi)
             /\ cached_min' = IF cached_min = None \/ TextLeq(lo, cached_min[1])
                                 THEN <<lo>> ELSE cached_min
             /\ cached_max' = IF cached_max = None \/ TextLeq(cached_max[1], hi)
                                 THEN <<hi>> ELSE cached_max
    /\ \E recorded \in BOOLEAN : synced_max' = IF recorded THEN cached_max' ELSE synced_max
    /\ UNCHANGED <<refresh_overlap_seconds, weekly_sweep_lookback_seconds, history_years,
                   window, now, from_dt, to_dt>>

PlanNext ==
    \/ RunHourlyRefresh
    \/ RunWeeklySweep
    \/ RunOnePlan
    \/ RunOneStore

(***************************************************************************)
(* One call of _make_request.                                              *)
(***************************************************************************)
DEFAULT_MAX_RETRIES == 5
METADATA_MAX_RETRIES == 3
ARCHIVAL_BASE_DELAY == 30
METADATA_BASE_DELAY == 2
RATE_LIMIT_WAIT == 60
SERVER_ERROR_WAIT_CAP == 120
TRANSPORT_ERROR_WAIT_CAP == 60

\* what one client.get can end in: a status code, httpx.TimeoutException
\* ("timeout") or another httpx.HTTPError ("http_error": a transport error, or
\* the HTTPStatusError of raise_for_status for a 4xx such as 404)
ServerErrors == {"500", "502", "503"}
Responses == {"200", "429", "504", "timeout", "http_error"} \cup ServerErrors

RECURSIVE Pow2(_)
Pow2(n) == IF n = 0 THEN 1 ELSE 2 * Pow2(n - 1)

\* `base_delay = 30.0 if is_archival else 2.0`
BaseDelay == IF is_archival THEN ARCHIVAL_BASE_DELAY ELSE METADATA_BASE_DELAY

\* `max_retries = self.max_retries if is_archival else 3`
MaxRetries == IF is_archival THEN DEFAULT_MAX_RETRIES ELSE METADATA_MAX_RETRIES

\* the backoff without its caps
WaitUncapped(r) ==
    IF r = "429" THEN RATE_LIMIT_WAIT
    ELSE IF r = "504" THEN BaseDelay
    ELSE BaseDelay * Pow2(attempt)

\* the wait_time after the response r of the current attempt
WaitAfter(r) ==
    IF r = "429" THEN RATE_LIMIT_WAIT
    ELSE IF r \in ServerErrors THEN Min(BaseDelay * Pow2(attempt), SERVER_ERROR_WAIT_CAP)
    ELSE IF r = "504" THEN BaseDelay
    ELSE Min(BaseDelay * Pow2(attempt), TRANSPORT_ERROR_WAIT_CAP)

\* the last pass of the loop re-raises an HTTPError:
\* `if attempt == max_retries - 1: raise Exception(...)`
RaisesNow(r) == r = "http_error" /\ attempt = MaxRetries - 1

RequestInit ==
    /\ req_pc = "idle"
    /\ is_archival \in BOOLEAN
    /\ attempt = 0
    /\ wait_time = 0
    /\ responses = << >>
    /\ req_result = "none"

\* the variables of the request under the other specifications
RequestIdle ==
    /\ req_pc = "idle"
    /\ is_archival = FALSE
    /\ attempt = 0
    /\ wait_time = 0
    /\ responses = << >>
    /\ req_result = "none"

\* _make_request(url, params, is_archival) is called
MakeRequest(archival) ==
    /\ UNCHANGED otherThanRequest
    /\ req_pc \in {"idle", "returned", "raised"}
    /\ req_pc' = "send"
    /\ is_archival' = archival
    /\ attempt' = 0
    /\ wait_time' = 0
    /\ responses' = << >>
    /\ req_result' = "none"

\* one pass of the loop from client.get to return, raise or asyncio.sleep
Respond(r) ==
    /\ UNCHANGED otherThanRequest
    /\ req_pc = "send"
    /\ responses' = Append(responses, r)
    /\ IF r = "200"
          THEN /\ req_pc' = "returned"
               /\ req_result' = "json"
               /\ UNCHANGED wait_time
          ELSE IF RaisesNow(r)
          THEN /\ req_pc' = "raised"
               /\ req_result' = "error"
               /\ UNCHANGED wait_time
          ELSE /\ req_pc' = "sleep"
               /\ wait_time' = WaitAfter(r)
               /\ UNCHANGED req_result
    /\ UNCHANGED <<is_archival, attempt>>

\* asyncio.sleep(wait_time) ends: the next pass of the loop, or `return {}`
\* when the range is used up
AfterSleep ==
    /\ UNCHANGED otherThanRequest
    /\ req_pc = "sleep"
    /\ IF attempt + 1 < MaxRetries
          THEN /\ attempt' = attempt + 1
               /\ req_pc' = "send"
               /\ UNCHANGED req_result
          ELSE /\ req_pc' = "returned"
               /\ req_result' = "empty"
               /\ UNCHANGED attempt
    /\ UNCHANGED <<is_archival, wait_time, responses>>

RequestNext ==
    \/ \E archival \in BOOLEAN : MakeRequest(archival)
    \/ \E r \in Responses : Respond(r)
    \/ AfterSleep

(***************************************************************************)
(* The sync_state table (cache_manager.py) and its two writers in run_one  *)
(* (refresh_jobs.py).  A nullable column holds << >> for NULL and <<v>>    *)
(* for the value v.                                                        *)
(***************************************************************************)
SyncErrors == {"timeout", "database is locked"}

SyncTimes == 1..MaxSyncClock

NoSyncRow ==
    [present |-> FALSE, max_date |-> None, last_success_at |-> None,
     last_attempt_at |-> None, last_error |-> None]

NoSyncCall ==
    [sensor_id |-> 0, max_date |-> None, last_success_at |-> None,
     last_attempt_at |-> None, last_error |-> None]

\* excluded.col
TakeExcluded(excluded, stored) == excluded

\* COALESCE(excluded.col, table.col)
Coalesce(excluded, stored) == IF excluded # None THEN excluded ELSE stored

\* the table after upsert_sync_state(sensor_id, max_date, last_success_at,
\* last_attempt_at, last_error)
upsert_sync_state(table, sensor_id, max_date, success_at, attempted_at, error) ==
    LET stored == table[sensor_id]
        inserted == [present |-> TRUE, max_date |-> max_date,
                     last_success_at |-> success_at,
                     last_attempt_at |-> attempted_at, last_error |-> error]
        updated == [present |-> TRUE,
                    max_date |-> Coalesce(max_date, stored.max_date),
                    last_success_at |-> Coalesce(success_at, stored.last_success_at),
                    last_attempt_at |-> attempted_at,
                    last_error |-> error]
    IN  [table EXCEPT ![sensor_id] = IF stored.present THEN updated ELSE inserted]

\* one call of upsert_sync_state, with the row it met and its arguments noted
UpsertSyncState(sensor_id, max_date, success_at, attempted_at, error) ==
    /\ sync_state' = upsert_sync_state(sync_state, sensor_id, max_date, success_at,
                                       attempted_at, error)
    /\ sync_before' = sync_state[sensor_id]
    /\ sync_call' = [sensor_id |-> sensor_id, max_date |-> max_date,
                     last_success_at |-> success_at,
                     last_attempt_at |-> attempted_at, last_error |-> error]

SyncInit ==
    /\ sync_state = [s \in Sensors |-> NoSyncRow]
    /\ sync_now = 1
    /\ sync_pc = [s \in Sensors |-> "idle"]
    /\ attempt_at = [s \in Sensors |-> 0]
    /\ table_max = [s \in Sensors |-> None]
    /\ sync_before = NoSyncRow
    /\ sync_call = NoSyncCall

SyncIdle ==
    /\ sync_state = << >>
    /\ sync_now = 0
    /\ sync_pc = << >>
    /\ attempt_at = << >>
    /\ table_max = << >>
    /\ sync_before = << >>
    /\ sync_call = << >>

\* time passes
SyncTick ==
    /\ UNCHANGED otherThanSync
    /\ sync_now < MaxSyncClock
    /\ sync_now' = sync_now + 1
    /\ UNCHANGED <<sync_state, sync_pc, attempt_at, table_max, sync_before, sync_call>>

\* run_one enters the semaphore: attempt_at = _now()
RunOneBegin(s) ==
    /\ UNCHANGED otherThanSync
    /\ sync_pc[s] = "idle"
    /\ sync_pc' = [sync_pc EXCEPT ![s] = "running"]
    /\ attempt_at' = [attempt_at EXCEPT ![s] = sync_now]
    /\ UNCHANGED <<sync_state, sync_now, table_max, sync_before, sync_call>>

\* cache_measurements stores fetched points: the newest timestamp of the
\* sensor does not go down
RunOneCache(s, newest) ==
    /\ UNCHANGED otherThanSync
    /\ sync_pc[s] = "running"
    /\ IF table_max[s] = None THEN TRUE ELSE table_max[s][1] < newest
    /\ table_max' = [table_max EXCEPT ![s] = <<newest>>]
    /\ UNCHANGED <<sync_state, sync_now, sync_pc, attempt_at, sync_before, sync_call>>

\* the try block ends: max_after is read and the success row is written
RunOneSucceeds(s) ==
    /\ UNCHANGED otherThanSync
    /\ sync_pc[s] = "running"
    /\ UpsertSyncState(s, table_max[s], <<sync_now>>, <<attempt_at[s]>>, None)
    /\ sync_pc' = [sync_pc EXCEPT ![s] = "idle"]
    /\ UNCHANGED <<sync_now, attempt_at, table_max>>

\* the try block raises e: the handler writes the failure row
RunOneFails(s, e) ==
    /\ UNCHANGED otherThanSync
    /\ sync_pc[s] = "running"
    /\ UpsertSyncState(s, None, None, <<sync_now>>, <<e>>)
    /\ sync_pc' = [sync_pc EXCEPT ![s] = "idle"]
    /\ UNCHANGED <<sync_now, attempt_at, table_max>>

\* the try block raises and the handler's own upsert_sync_state raises too:
\* nothing is written
RunOneFailsUnrecorded(s) ==
    /\ UNCHANGED otherThanSync
    /\ sync_pc[s] = "running"
    /\ sync_pc' = [sync_pc EXCEPT ![s] = "idle"]
    /\ UNCHANGED <<sync_state, sync_now, attempt_at, table_max, sync_before, sync_call>>

\* an hourly run_one of a sensor with no measurements, under history_years = 0:
\* `if history_start is None: return (0, False, None)`, with no write
RunOneSkips(s, is_hourly, years) ==
    /\ UNCHANGED otherThanSync
    /\ sync_pc[s] = "running"
    /\ is_hourly
    /\ table_max[s] = None
    /\ years = 0
    /\ sync_pc' = [sync_pc EXCEPT ![s] = "idle"]
    /\ UNCHANGED <<sync_state, sync_now, attempt_at, table_max, sync_before, sync_call>>

SyncNext ==
    \/ SyncTick
    \/ \E s \in Sensors : RunOneBegin(s)
    \/ \E s \in Sensors, newest \in SyncTimes : RunOneCache(s, newest)
    \/ \E s \in Sensors : RunOneSucceeds(s)
    \/ \E s \in Sensors, e \in SyncErrors : RunOneFails(s, e)
    \/ \E s \in Sensors : RunOneFailsUnrecorded(s)
    \/ \E s \in Sensors, is_hourly \in BOOLEAN, years \in {0, 15} : RunOneSkips(s, is_hourly, years)

(***************************************************************************)
(* The job_state table (cache_manager.py) and _run_job (refresh_jobs.py).  *)
(* Runs hold the run lock, so one run is in progress at a time.            *)
(***************************************************************************)
JobErrors == {"Unknown job kind", "database is locked"}

NoJobRow ==
    [present |-> FALSE, last_run_at |-> None, last_success_at |-> None,
     last_error |-> None]

\* INSERT OR REPLACE of the whole row
replace_job_state(table, job_name, run_at, success_at, error) ==
    [table EXCEPT ![job_name] =
        [present |-> TRUE, last_run_at |-> run_at, last_success_at |-> success_at,
         last_error |-> error]]

\* the table after upsert_job_state(job_name, last_run_at, last_success_at,
\* last_error)
upsert_job_state(table, job_name, run_at, success_at, error) ==
    LET stored == table[job_name]
    IN  [table EXCEPT ![job_name] =
            [present |-> TRUE,
             last_run_at |-> run_at,
             last_success_at |-> IF stored.present
                                 THEN Coalesce(success_at, stored.last_success_at)
                                 ELSE success_at,
             last_error |-> error]]

JobEnded == job_pc \in {"idle", "returned", "raised", "cancelled"}

JobInit ==
    /\ job_state = [k \in JobKinds |-> NoJobRow]
    /\ job_now = 1
    /\ job_pc = "idle"
    /\ job_kind = JOB_HOURLY_REFRESH
    /\ started_at = 0
    /\ finished_at = 0
    /\ job_error = None
    /\ job_before = NoJobRow
    /\ job_wrote = FALSE

JobIdle ==
    /\ job_state = << >>
    /\ job_now = 0
    /\ job_pc = "off"
    /\ job_kind = ""
    /\ started_at = 0
    /\ finished_at = 0
    /\ job_error = None
    /\ job_before = << >>
    /\ job_wrote = FALSE

\* time passes
JobTick ==
    /\ UNCHANGED otherThanJob
    /\ job_pc # "off"
    /\ job_now < MaxJobClock
    /\ job_now' = job_now + 1
    /\ UNCHANGED <<job_state, job_pc, job_kind, started_at, finished_at, job_error,
                   job_before, job_wrote>>

\* _run_job(kind) has the lock: started_at = _now()
RunJobBegin(k) ==
    /\ UNCHANGED otherThanJob
    /\ JobEnded
    /\ job_pc' = "logic"
    /\ job_kind' = k
    /\ started_at' = job_now
    /\ finished_at' = 0
    /\ job_error' = None
    /\ job_before' = job_state[k]
    /\ job_wrote' = FALSE
    /\ UNCHANGED <<job_state, job_now>>

\* _run_hourly_refresh / _run_weekly_sweep returned: finished_at = _now()
RunJobLogicReturns ==
    /\ UNCHANGED otherThanJob
    /\ job_pc = "logic"
    /\ job_pc' = "finish"
    /\ finished_at' = job_now
    /\ UNCHANGED <<job_state, job_now, job_kind, started_at, job_error, job_before,
                   job_wrote>>

\* the upsert_job_state of the try block completes; the run returns its stats
RunJobRecordsSuccess ==
    /\ UNCHANGED otherThanJob
    /\ job_pc = "finish"
    /\ job_state' = upsert_job_state(job_state, job_kind, <<started_at>>,
                                     <<finished_at>>, None)
    /\ job_wrote' = TRUE
    /\ job_pc' = "returned"
    /\ UNCHANGED <<job_now, job_kind, started_at, finished_at, job_error, job_before>>

\* the run's logic, or the upsert_job_state of the try block, raises e
RunJobRaises(e) ==
    /\ UNCHANGED otherThanJob
    /\ job_pc \in {"logic", "finish"}
    /\ job_pc' = "handler"
    /\ job_error' = <<e>>
    /\ UNCHANGED <<job_state, job_now, job_kind, started_at, finished_at, job_before,
                   job_wrote>>

\* the handler's upsert_job_state completes; `raise` re-raises e
RunJobRecordsFailure ==
    /\ UNCHANGED otherThanJob
    /\ job_pc = "handler"
    /\ job_state' = upsert_job_state(job_state, job_kind, <<started_at>>, None,
                                     job_error)
    /\ job_wrote' = TRUE
    /\ job_pc' = "raised"
    /\ UNCHANGED <<job_now, job_kind, started_at, finished_at, job_error, job_before>>

\* the handler's upsert_job_state raises: its exception leaves _run_job
RunJobHandlerRaises ==
    /\ UNCHANGED otherThanJob
    /\ job_pc = "handler"
    /\ job_pc' = "raised"
    /\ UNCHANGED <<job_state, job_now, job_kind, started_at, finished_at, job_error,
                   job_before, job_wrote>>

\* CancelledError arrives at an await of the run; `except Exception` lets it pass
RunJobCancelled ==
    /\ UNCHANGED otherThanJob
    /\ job_pc \in {"logic", "finish", "handler"}
    /\ job_pc' = "cancelled"
    /\ UNCHANGED <<job_state, job_now, job_kind, started_at, finished_at, job_error,
                   job_before, job_wrote>>

JobNext ==
    \/ JobTick
    \/ \E k \in JobKinds : RunJobBegin(k)
    \/ RunJobLogicReturns
    \/ RunJobRecordsSuccess
    \/ \E e \in JobErrors : RunJobRaises(e)
    \/ RunJobRecordsFailure
    \/ RunJobHandlerRaises
    \/ RunJobCancelled

(***************************************************************************)
(* The city_rankings table (cache_manager.py) and GET /ranking             *)
(* (api_routes.py).  compute_year_ranking is any list of city rows here;   *)
(* SpecRanking computes it.                                                *)
(***************************************************************************)
\* EU_2030_DAILY_LIMITS["PM10"]
EU_PM10_THRESHOLD == 45

EU_PM10_ALLOWED_EXCEEDANCES == 18

RankingYears == 2023..(2022 + MaxRankingYears)

RankingKeys == {<<y, "PM10", "city_avg">> : y \in RankingYears}

RankingRequests == 1..MaxRankingRequests

CityRow(rank, city, days) == [rank |-> rank, city |-> city, exceedance_days |-> days]

\* lists of city rows a computation can return
CityLists ==
    {<< >>,
     <<CityRow(1, "CityA", 1)>>,
     <<CityRow(1, "CityA", 1), CityRow(2, "CityB", 0)>>,
     <<CityRow(1, "CityB", 2), CityRow(2, "CityA", 1)>>}

\* json.dumps(payload): the object as text, member by member
JsonCity(c) == <<"rank", c.rank, "city", c.city, "exceedance_days", c.exceedance_days>>

json_dumps(payload) ==
    <<"cities", [i \in 1..Len(payload.cities) |-> JsonCity(payload.cities[i])],
      "total_cities", payload.total_cities>>

\* json.loads(text): the members of the text as an object
ParseCity(t) == [rank |-> t[2], city |-> t[4], exceedance_days |-> t[6]]

json_loads(text) ==
    [cities |-> [i \in 1..Len(text[2]) |-> ParseCity(text[2][i])],
     total_cities |-> text[4]]

NoRankingRow ==
    [present |-> FALSE, threshold_value |-> 0, allowed_exceedances_per_year |-> 0,
     payload_json |-> << >>]

NoRanking == [found |-> FALSE, year |-> 0, threshold_value |-> 0, cities |-> << >>,
              total_cities |-> 0]

\* INSERT ... ON CONFLICT DO NOTHING
insert_city_ranking(table, key, threshold, allowed, payload) ==
    IF table[key].present
    THEN table
    ELSE [table EXCEPT ![key] =
             [present |-> TRUE, threshold_value |-> threshold,
              allowed_exceedances_per_year |-> allowed,
              payload_json |-> json_dumps(payload)]]

\* the table after upsert_city_ranking: every column takes the excluded value
upsert_city_ranking(table, key, threshold, allowed, payload) ==
    [table EXCEPT ![key] =
        [present |-> TRUE, threshold_value |-> threshold,
         allowed_exceedances_per_year |-> allowed,
         payload_json |-> json_dumps(payload)]]

\* what get_city_ranking(year, pollutant_code, method) returns
get_city_ranking(table, key) ==
    IF ~table[key].present
    THEN NoRanking
    ELSE LET payload == json_loads(table[key].payload_json)
         IN  [found |-> TRUE, year |-> key[1],
              threshold_value |-> table[key].threshold_value,
              cities |-> payload.cities, total_cities |-> payload.total_cities]

RankingCacheInit ==
    /\ city_rankings = [k \in RankingKeys |-> NoRankingRow]
    /\ last_payload = [k \in RankingKeys |-> [stored |-> FALSE, cities |-> << >>]]
    /\ rk_pc = [r \in RankingRequests |-> "idle"]
    /\ rk_key = [r \in RankingRequests |-> <<2023, "PM10", "city_avg">>]
    /\ rk_result = [r \in RankingRequests |-> << >>]
    /\ rk_response = [r \in RankingRequests |-> NoRanking]

RankingCacheIdle ==
    /\ city_rankings = << >>
    /\ last_payload = << >>
    /\ rk_pc = << >>
    /\ rk_key = << >>
    /\ rk_result = << >>
    /\ rk_response = << >>

\* GET /ranking: a cached ranking is returned as it is unless force is set
GetRanking(r, key, force) ==
    /\ UNCHANGED otherThanRankingCache
    /\ rk_pc[r] \in {"idle", "done"}
    /\ rk_key' = [rk_key EXCEPT ![r] = key]
    /\ LET cached == get_city_ranking(city_rankings, key)
       IN  IF ~force /\ cached.found
           THEN /\ rk_pc' = [rk_pc EXCEPT ![r] = "done"]
                /\ rk_response' = [rk_response EXCEPT ![r] = cached]
           ELSE /\ rk_pc' = [rk_pc EXCEPT ![r] = "compute"]
                /\ rk_response' = [rk_response EXCEPT ![r] = NoRanking]
    /\ UNCHANGED <<city_rankings, last_payload, rk_result>>

\* compute_year_ranking returns `cities`
RankingComputed(r, cities) ==
    /\ UNCHANGED otherThanRankingCache
    /\ rk_pc[r] = "compute"
    /\ rk_pc' = [rk_pc EXCEPT ![r] = "store"]
    /\ rk_result' = [rk_result EXCEPT ![r] = cities]
    /\ UNCHANGED <<city_rankings, last_payload, rk_key, rk_response>>

\* upsert_city_ranking(payload = {"cities": ..., "total_cities": ...})
RankingStored(r) ==
    /\ UNCHANGED otherThanRankingCache
    /\ rk_pc[r] = "store"
    /\ LET payload == [cities |-> rk_result[r], total_cities |-> Len(rk_result[r])]
       IN  city_rankings' = upsert_city_ranking(city_rankings, rk_key[r], EU_PM10_THRESHOLD,
                                               EU_PM10_ALLOWED_EXCEEDANCES, payload)
    /\ last_payload' = [last_payload EXCEPT ![rk_key[r]] =
                           [stored |-> TRUE, cities |-> rk_result[r]]]
    /\ rk_pc' = [rk_pc EXCEPT ![r] = "read"]
    /\ UNCHANGED <<rk_key, rk_result, rk_response>>

\* stored = get_city_ranking(...); return stored
RankingReturned(r) ==
    /\ UNCHANGED otherThanRankingCache
    /\ rk_pc[r] = "read"
    /\ rk_response' = [rk_response EXCEPT ![r] = get_city_ranking(city_rankings, rk_key[r])]
    /\ rk_pc' = [rk_pc EXCEPT ![r] = "done"]
    /\ UNCHANGED <<city_rankings, last_payload, rk_key, rk_result>>

RankingCacheNext ==
    \/ \E r \in RankingRequests, key \in RankingKeys, force \in BOOLEAN :
           GetRanking(r, key, force)
    \/ \E r \in RankingRequests, cities \in CityLists : RankingComputed(r, cities)
    \/ \E r \in RankingRequests : RankingStored(r)
    \/ \E r \in RankingRequests : RankingReturned(r)

(***************************************************************************)
(* compute_year_ranking (ranking_service.py): the query over measurements  *)
(* and stations, step by step.  Days are days of 2023, values are whole    *)
(* micrograms, an average is a fraction <<numerator, denominator>>, and a  *)
(* percentage is kept in hundredths.                                       *)
(***************************************************************************)
MIN_HOURLY_VALUES_PER_DAY == 18

RankingMethods == {"city_avg", "worst_station", "any_station_exceed"}

\* city names in the order of ORDER BY city ASC (SQLite compares the bytes)
CityNames == <<"CityA", "CityB", "CityC">>

NameIndex(city) == CHOOSE i \in 1..Len(CityNames) : CityNames[i] = city

RankStations == 1..MaxStations

RankDays == 1..MaxDays

\* the rows of one station-day: high_n rows of high_v, low_n rows of low_v and
\* null_n rows whose value is NULL; the other hours have no row
Profile(high_n, high_v, low_n, low_v, null_n) ==
    [i \in 1..(high_n + low_n + null_n) |->
        IF i <= high_n THEN <<high_v>>
        ELSE IF i <= high_n + low_n THEN <<low_v>>
        ELSE None]

Profiles ==
    {Profile(20, 50, 0, 0, 0), Profile(20, 50, 4, 10, 0), Profile(10, 50, 0, 0, 0),
     Profile(17, 50, 0, 0, 7), Profile(18, 10, 0, 0, 0)}

StationMaps ==
    {<<"CityA", "CityB", "CityC">>, <<"CityA", "CityA", "CityB">>,
     <<"CityA", "CityB", "">>}

RECURSIVE SumValues(_)
SumValues(rows) ==
    IF rows = << >> THEN 0 ELSE Head(rows)[1] + SumValues(Tail(rows))

IsNotNull(v) == v # None

\* HAVING station_day_count > ?
StationDayValidAbove(count) == count > MIN_HOURLY_VALUES_PER_DAY

\* HAVING station_day_count >= 1
StationDayPresent(count) == count >= 1

\* HAVING station_day_count >= ?
StationDayValid(count) == count >= MIN_HOURLY_VALUES_PER_DAY

\* station_daily: AVG(m.value) and COUNT(m.value) of the non-null rows of the
\* year, by station and day
StationDaily(year) ==
    {sd \in {LET values == SelectSeq(hourly[st][d], IsNotNull)
             IN  [station_id |-> st, day |-> d,
                  station_day_avg |-> <<SumValues(values), Len(values)>>,
                  station_day_count |-> Len(values)] :
             st \in RankStations, d \in RankDays} :
        /\ year = 2023
        /\ sd.station_day_count > 0
        /\ StationDayValid(sd.station_day_count)}

FracLess(a, b) == a[1] * b[2] < b[1] * a[2]

FracAdd(a, b) == <<a[1] * b[2] + b[1] * a[2], a[2] * b[2]>>

RECURSIVE SumAvg(_)
SumAvg(sds) ==
    IF sds = {} THEN <<0, 1>>
    ELSE LET sd == CHOOSE x \in sds : TRUE
         IN  FracAdd(sd.station_day_avg, SumAvg(sds \ {sd}))

\* _city_agg_expr: AVG(sd.station_day_avg) or MAX(sd.station_day_avg)
CityAgg(method, sds) ==
    IF method = "city_avg"
    THEN LET total == SumAvg(sds) IN <<total[1], total[2] * Cardinality(sds)>>
    ELSE (CHOOSE x \in sds :
              \A y \in sds : ~FracLess(x.station_day_avg, y.station_day_avg)).station_day_avg

\* city_daily: one row per city and day with a station-day of the city
CityDaily(station_daily, method) ==
    LET joined(city, d) == {sd \in station_daily :
                               sd.day = d /\ station_city[sd.station_id] = city}
    IN  {[city |-> CityNames[p[1]], day |-> p[2],
          city_day_value |-> CityAgg(method, joined(CityNames[p[1]], p[2])),
          stations_with_data |-> Cardinality(joined(CityNames[p[1]], p[2]))] :
            p \in {q \in (1..Len(CityNames)) \X RankDays :
                      joined(CityNames[q[1]], q[2]) # {}}}

\* cd.city_day_value >= ?
ExceedsOrEquals(value, threshold) == value[1] >= threshold * value[2]

\* cd.city_day_value > ?
Exceeds(value, threshold) == value[1] > threshold * value[2]

\* ROUND(100.0 * days / total, 2), in hundredths
RoundPct(days, total) == (2 * 10000 * days + total) \div (2 * total)

\* city_stats joined with city_station_counts
CityStats(station_daily, method) ==
    LET daily == CityDaily(station_daily, method)
        of(city) == {cd \in daily : cd.city = city}
        above(city) == {cd \in of(city) : Exceeds(cd.city_day_value, EU_PM10_THRESHOLD)}
    IN  {[city |-> city,
          exceedance_days |-> Cardinality(above(city)),
          days_with_data |-> Cardinality(of(city)),
          exceedance_pct |-> RoundPct(Cardinality(above(city)), Cardinality(of(city))),
          stations_count |-> Cardinality({sd.station_id : sd \in
                                 {x \in station_daily :
                                     station_city[x.station_id] = city}})] :
            city \in {cd.city : cd \in daily}}

\* ORDER BY cs.city ASC
OrderedByNameOnly(a, b) == NameIndex(a.city) < NameIndex(b.city)

\* ORDER BY cs.exceedance_days DESC, cs.exceedance_pct DESC, cs.city ASC
OrderedBefore(a, b) ==
    \/ a.exceedance_days > b.exceedance_days
    \/ /\ a.exceedance_days = b.exceedance_days
       /\ a.exceedance_pct > b.exceedance_pct
    \/ /\ a.exceedance_days = b.exceedance_days
       /\ a.exceedance_pct = b.exceedance_pct
       /\ NameIndex(a.city) < NameIndex(b.city)

RECURSIVE Ordered(_)
Ordered(stats) ==
    IF stats = {} THEN << >>
    ELSE LET first == CHOOSE x \in stats : \A y \in stats \ {x} : OrderedBefore(x, y)
         IN  <<first>> \o Ordered(stats \ {first})

\* for idx, r in enumerate(fetched, start=1): rows.append({...})
RankedRows(fetched) ==
    [idx \in 1..Len(fetched) |->
        [rank |-> idx,
         city |-> fetched[idx].city,
         exceedance_days |-> fetched[idx].exceedance_days,
         days_with_data |-> fetched[idx].days_with_data,
         exceedance_pct |-> fetched[idx].exceedance_pct,
         stations_count |-> fetched[idx].stations_count,
         exceeds_allowed_exceedances |->
             fetched[idx].exceedance_days > EU_PM10_ALLOWED_EXCEEDANCES]]

compute_year_ranking(year, method) ==
    RankedRows(Ordered(CityStats(StationDaily(year), method)))

NoYearRanking == [computed |-> FALSE, year |-> 0, method |-> "", cities |-> << >>]

SeededStationDays ==
    Cardinality({p \in RankStations \X RankDays : hourly[p[1]][p[2]] # << >>})

RankingInit ==
    /\ station_city \in StationMaps
    /\ hourly = [st \in RankStations |-> [d \in RankDays |-> << >>]]
    /\ ranking = NoYearRanking

RankingIdle ==
    /\ station_city = << >>
    /\ hourly = << >>
    /\ ranking = NoYearRanking

\* a refresh stores the rows of one station-day; what was computed before
\* is no longer the ranking of the table
StoreStationDay(st, d, rows) ==
    /\ UNCHANGED otherThanRanking
    /\ station_city # << >>
    /\ hourly[st][d] = << >>
    /\ SeededStationDays < MaxStationDays
    /\ hourly' = [hourly EXCEPT ![st][d] = rows]
    /\ ranking' = NoYearRanking
    /\ UNCHANGED station_city

\* compute_year_ranking(year, "PM10", method)
ComputeYearRanking(year, method) ==
    /\ UNCHANGED otherThanRanking
    /\ station_city # << >>
    /\ ranking' = [computed |-> TRUE, year |-> year, method |-> method,
                   cities |-> compute_year_ranking(year, method)]
    /\ UNCHANGED <<station_city, hourly>>

RankingNext ==
    \/ \E st \in RankStations, d \in RankDays, rows \in Profiles :
           StoreStationDay(st, d, rows)
    \/ \E year \in RankingYears, method \in RankingMethods :
           ComputeYearRanking(year, method)

(***************************************************************************)
(* compute_trends (ranking_service.py) and the annual_city_stats cache.    *)
(* get_annual_stats and upsert_annual_stats are modelled from the          *)
(* specification: rows keyed by (year, city), read in (year, city) order.  *)
(***************************************************************************)
CURRENT_YEAR_CACHE_TTL_SECONDS == 3600

TrendYears == 2023..(2022 + MaxTrendYears)

TrendTimes == {n * TrendStep : n \in 0..MaxTrendSteps}

\* what the query of one year can yield
YearResults ==
    {{}, {[city |-> "CityA", exceedance_days |-> 1]},
     {[city |-> "CityA", exceedance_days |-> 0], [city |-> "CityB", exceedance_days |-> 1]}}

\* get_annual_stats: the rows of a year, the first of them in city order
RowsOf(stats, y) == {r \in stats : r.year = y}

FirstEntry(stats, y) ==
    CHOOSE r \in RowsOf(stats, y) :
        \A o \in RowsOf(stats, y) : NameIndex(r.city) <= NameIndex(o.city)

\* upsert_annual_stats: each new row replaces the row of its (year, city)
upsert_annual_stats(stats, new_rows) ==
    {r \in stats : ~\E n \in new_rows : n.year = r.year /\ n.city = r.city}
        \cup new_rows

YearsToCover(available) ==
    IF available = {} THEN {}
    ELSE LET min_year == CHOOSE y \in available : \A z \in available : y <= z
             max_year == CHOOSE y \in available : \A z \in available : y >= z
         IN  min_year..max_year

\* age_seconds < 60
FreshForAMinute(age_seconds) == age_seconds < 60

\* age_seconds < CURRENT_YEAR_CACHE_TTL_SECONDS
IsFresh(age_seconds) == age_seconds < CURRENT_YEAR_CACHE_TTL_SECONDS

\* no year counts as cached
NeverCached(stats, y) == FALSE

\* `y in cached_years`, cached_years being the years of the cached rows
IsCached(stats, y) == RowsOf(stats, y) # {}

\* the loop over years_to_cover that builds years_to_compute
YearsToCompute(stats, available, year_now, utcnow) ==
    {y \in YearsToCover(available) :
        IF y = year_now
        THEN \/ RowsOf(stats, y) = {}
             \/ ~IsFresh(utcnow - FirstEntry(stats, y).computed_at)
        ELSE ~IsCached(stats, y)}

\* the rows computed for the years to compute, stamped with computed_at
NewRows(years, results, utcnow) ==
    UNION {{[year |-> y, city |-> c.city, exceedance_days |-> c.exceedance_days,
             computed_at |-> utcnow] : c \in results[y]} : y \in years}

NotDone == [done |-> FALSE, rows |-> {}]

\* the (city, exceedance_days) pairs of a set of rows
Cities(rows) == {[city |-> r.city, exceedance_days |-> r.exceedance_days] : r \in rows}

NoTrendCall == [made |-> FALSE, covered |-> FALSE, entry_age |-> -1, recomputed |-> FALSE]

TrendsInit ==
    /\ annual_stats = {}
    /\ trend_now = 0
    /\ current_year = 2023
    /\ available_years = {}
    /\ year_result = [y \in TrendYears |-> {}]
    /\ trend_call = NoTrendCall
    /\ trend_skipped = FALSE
    /\ past_done = [y \in TrendYears |-> NotDone]
    /\ past_redone = {}
    /\ past_kept = {}

TrendsIdle ==
    /\ annual_stats = {}
    /\ trend_now = -1
    /\ current_year = 0
    /\ available_years = {}
    /\ year_result = << >>
    /\ trend_call = NoTrendCall
    /\ trend_skipped = FALSE
    /\ past_done = << >>
    /\ past_redone = {}
    /\ past_kept = {}

\* time passes
TrendTick ==
    /\ UNCHANGED otherThanTrends
    /\ trend_now >= 0
    /\ trend_now + TrendStep \in TrendTimes
    /\ trend_now' = trend_now + TrendStep
    /\ UNCHANGED <<annual_stats, current_year, available_years, year_result, trend_call,
                   trend_skipped, past_done, past_redone, past_kept>>

\* the year ends
NewYear ==
    /\ UNCHANGED otherThanTrends
    /\ current_year + 1 \in TrendYears
    /\ current_year' = current_year + 1
    /\ UNCHANGED <<annual_stats, trend_now, available_years, year_result, trend_call,
                   trend_skipped, past_done, past_redone, past_kept>>

\* a refresh stores measurements of year y: the year's query yields `result`
RefreshStoresYear(y, result) ==
    /\ UNCHANGED otherThanTrends
    /\ y \in TrendYears /\ y <= current_year
    /\ year_result[y] # result \/ y \notin available_years
    /\ available_years' = available_years \cup {y}
    /\ year_result' = [year_result EXCEPT ![y] = result]
    /\ UNCHANGED <<annual_stats, trend_now, current_year, trend_call, trend_skipped,
                   past_done, past_redone, past_kept>>

\* compute_trends(pollutant, method, standard)
ComputeTrends ==
    /\ UNCHANGED otherThanTrends
    /\ trend_now >= 0
    /\ LET years == YearsToCompute(annual_stats, available_years, current_year, trend_now)
           covered == current_year \in YearsToCover(available_years)
           cached == RowsOf(annual_stats, current_year) # {}
           age == IF cached
                  THEN trend_now - FirstEntry(annual_stats, current_year).computed_at
                  ELSE -1
       IN  /\ annual_stats' = upsert_annual_stats(annual_stats,
                                                  NewRows(years, year_result, trend_now))
           /\ trend_call' = [made |-> TRUE, covered |-> covered, entry_age |-> age,
                             recomputed |-> current_year \in years]
           /\ trend_skipped' = (trend_skipped \/ (covered /\ cached /\ current_year \notin years))
           /\ past_done' = [y \in TrendYears |->
                              IF y \in years /\ y < current_year /\ ~past_done[y].done
                              THEN [done |-> TRUE,
                                    rows |-> NewRows({y}, year_result, trend_now)]
                              ELSE past_done[y]]
           /\ past_redone' = past_redone \cup
                                {y \in years : y < current_year /\ past_done[y].done}
           /\ past_kept' = past_kept \cup
                              {y \in YearsToCover(available_years) \ years :
                                 /\ y < current_year
                                 /\ past_done[y].done
                                 /\ Cities(RowsOf(annual_stats, y)) # year_result[y]}
    /\ UNCHANGED <<trend_now, current_year, available_years, year_result>>

TrendsNext ==
    \/ TrendTick
    \/ NewYear
    \/ \E y \in TrendYears, result \in YearResults : RefreshStoresYear(y, result)
    \/ ComputeTrends

(***************************************************************************)
(* Who calls the upstream client (SpecApi).  api_routes.py builds one      *)
(* GiosDataFetcher and hands it to the RefreshCoordinator; the startup     *)
(* hook, the route handlers, the coordinator's job runs and the offline    *)
(* script scripts/fill_gaps.py are the places a call could come from.      *)
(* Every call is logged with its caller.                                   *)
(***************************************************************************)

\* The routes that only read (api_routes.py 88-262, 287, 493-541).
ReadRoutes ==
    {"/cities", "/stations", "/pollutants", "/ranking/years",
     "/ranking/trends", "/ranking", "/refresh/status", "/data",
     "/admin/refresh-reports", "/admin/completeness-report"}

\* What starts a job run: the two background loops started by
\* refresh_coordinator.start(), and the three routes that call
\* run_hourly_once / run_weekly_once.
JobTriggers ==
    {"hourly_loop", "weekly_loop", "/refresh/run", "/refresh/sweep",
     "/admin/full-refresh"}

\* weekly_loop and /refresh/sweep run the weekly sweep, the rest the hourly
\* refresh.
IsWeekly(trigger) == trigger \in {"weekly_loop", "/refresh/sweep"}

UpstreamCall(by, call) == [by |-> by, call |-> call]

\* startup_event: "if not cached_stations: fetcher.fetch_all_stations()".
StartupCalls(cached) ==
    IF cached THEN {} ELSE {UpstreamCall("startup", "fetch_all_stations")}

\* A read route that looked upstream for the sensors it does not find in the
\* cache.
RouteFetchesOnMiss(route, cached) ==
    IF route = "/data" /\ ~cached
    THEN {UpstreamCall("route", "fetch_station_sensors")}
    ELSE {}

\* The read routes: cache.get_stations, cache.get_sensors,
\* cache.get_measurements_by_sensor, the ranking service and the job-state
\* tables; /data skips a station whose sensors are not cached.
RouteCalls(route, cached) == {}

NoResolution == [made |-> FALSE, force_refresh |-> FALSE, cached |-> FALSE, source |-> "none"]

\* The cached list whenever force_refresh is not set, be it empty.
CacheOnlyUnlessForced(force_refresh, cached) ==
    IF force_refresh THEN {UpstreamCall("job", "fetch_station_sensors")} ELSE {}

\* _get_station_sensors: the cached list unless force_refresh or empty.
JobSensorCalls(force_refresh, cached) ==
    IF ~force_refresh /\ cached
    THEN {}
    ELSE {UpstreamCall("job", "fetch_station_sensors")}

ApiInit ==
    /\ api_phase = "down"
    /\ stations_cached \in BOOLEAN
    /\ sensors_cached \in BOOLEAN
    /\ api_job = "none"
    /\ upstream_calls = {}
    /\ last_route = "none"
    /\ route_missed = FALSE
    /\ resolution = NoResolution

ApiIdle ==
    /\ api_phase = "idle"
    /\ stations_cached = FALSE
    /\ sensors_cached = FALSE
    /\ api_job = "none"
    /\ upstream_calls = {}
    /\ last_route = "none"
    /\ route_missed = FALSE
    /\ resolution = NoResolution

\* startup_event: fetch and cache the stations if none are cached (the fetch
\* returns [] on error), then start the loops.
StartupEvent(fetched_any) ==
    /\ UNCHANGED otherThanApi
    /\ api_phase = "down"
    /\ api_phase' = "up"
    /\ upstream_calls' = upstream_calls \cup StartupCalls(stations_cached)
    /\ stations_cached' = (stations_cached \/ fetched_any)
    /\ UNCHANGED <<sensors_cached, api_job, last_route, route_missed,
                   resolution>>

\* A read route handler, start to end.
ServeRoute(route) ==
    /\ UNCHANGED otherThanApi
    /\ api_phase = "up"
    /\ upstream_calls' = upstream_calls \cup RouteCalls(route, sensors_cached)
    /\ last_route' = route
    /\ route_missed' =
           (route_missed \/ (route = "/data" /\ stations_cached /\ ~sensors_cached))
    /\ UNCHANGED <<api_phase, stations_cached, sensors_cached, api_job, resolution>>

\* _run_job takes the lock: one job run at a time.
JobBegins(trigger) ==
    /\ UNCHANGED otherThanApi
    /\ api_phase = "up"
    /\ api_job = "none"
    /\ api_job' = trigger
    /\ UNCHANGED <<api_phase, stations_cached, sensors_cached, upstream_calls,
                   last_route, route_missed,
                   resolution>>

\* The run resolves the sensors of a target station; with no station cached
\* there is no target.
JobResolvesSensors(fetched_any) ==
    /\ UNCHANGED otherThanApi
    /\ api_job # "none"
    /\ stations_cached
    /\ upstream_calls' =
           upstream_calls \cup JobSensorCalls(IsWeekly(api_job), sensors_cached)
    /\ sensors_cached' =
           IF JobSensorCalls(IsWeekly(api_job), sensors_cached) = {}
           THEN sensors_cached
           ELSE (sensors_cached \/ fetched_any)
    /\ resolution' =
           [made |-> TRUE, force_refresh |-> IsWeekly(api_job), cached |-> sensors_cached,
            source |-> IF JobSensorCalls(IsWeekly(api_job), sensors_cached) = {}
                       THEN "cache" ELSE "upstream"]
    /\ UNCHANGED <<api_phase, stations_cached, api_job, last_route, route_missed>>

\* run_one fetches the window of one sensor.
JobFetchesData ==
    /\ UNCHANGED otherThanApi
    /\ api_job # "none"
    /\ stations_cached
    /\ sensors_cached
    /\ upstream_calls' =
           upstream_calls \cup {UpstreamCall("job", "fetch_sensor_data")}
    /\ UNCHANGED <<api_phase, stations_cached, sensors_cached, api_job,
                   last_route, route_missed,
                   resolution>>

JobEnds ==
    /\ UNCHANGED otherThanApi
    /\ api_job # "none"
    /\ api_job' = "none"
    /\ UNCHANGED <<api_phase, stations_cached, sensors_cached, upstream_calls,
                   last_route, route_missed,
                   resolution>>

\* shutdown_event stops the coordinator; the process can be started again.
ShutdownEvent ==
    /\ UNCHANGED otherThanApi
    /\ api_phase = "up"
    /\ api_phase' = "down"
    /\ api_job' = "none"
    /\ UNCHANGED <<stations_cached, sensors_cached, upstream_calls, last_route,
                   route_missed,
                   resolution>>

\* scripts/fill_gaps.py, run by hand beside the API process, with a
\* GiosDataFetcher of its own, for the sensor ids given on its command line.
FillGapsScript ==
    /\ UNCHANGED otherThanApi
    /\ upstream_calls' =
           upstream_calls \cup {UpstreamCall("script", "fetch_sensor_data")}
    /\ UNCHANGED <<api_phase, stations_cached, sensors_cached, api_job,
                   last_route, route_missed,
                   resolution>>

\* The cache is emptied between two runs of the process (a new database
\* file).
CacheReset ==
    /\ UNCHANGED otherThanApi
    /\ api_phase = "down"
    /\ stations_cached \/ sensors_cached
    /\ stations_cached' = FALSE
    /\ sensors_cached' = FALSE
    /\ UNCHANGED <<api_phase, api_job, upstream_calls, last_route, route_missed,
                   resolution>>

ApiNext ==
    \/ \E fetched_any \in BOOLEAN : StartupEvent(fetched_any)
    \/ \E route \in ReadRoutes : ServeRoute(route)
    \/ \E trigger \in JobTriggers : JobBegins(trigger)
    \/ \E fetched_any \in BOOLEAN : JobResolvesSensors(fetched_any)
    \/ JobFetchesData
    \/ JobEnds
    \/ ShutdownEvent
    \/ FillGapsScript
    \/ CacheReset

(***************************************************************************)
(* fetch_sensor_data (data_fetcher.py) as run_one calls it                 *)
(* (refresh_jobs.py): the window is cut into chunks, each chunk is paged,  *)
(* and run_one records the outcome.  Times are seconds from a minute       *)
(* boundary.  A request ends as one _make_request call does (SpecRequest): *)
(* "json" (the body of a 200), "empty" ({} after the retries are used up)  *)
(* or "error" (the exception of the last attempt).                         *)
(***************************************************************************)
MAX_CHUNK_DAYS == 365

Days(n) == n * 86400

\* strftime("%Y-%m-%d %H:%M"): the seconds are dropped; the text is
\* represented by the first second of its minute
FormatMinute(t) == t - (t % 60)

WindowStarts == {0, 59}

WindowSpans == {0, Days(10), Days(MAX_CHUNK_DAYS), Days(400), Days(731)}

\* what one _rate_limited_archival_request can end in
PageOutcomes ==
    {[kind |-> "json", count |-> n, total_pages |-> tp] :
        n \in 0..MaxPageRows, tp \in 1..MaxTotalPages}
    \cup {[kind |-> "empty", count |-> 0, total_pages |-> 1],
          [kind |-> "error", count |-> 0, total_pages |-> 1]}

\* `chunk_end = min(current_start + timedelta(days=365), end_date)`
ChunkEnd(from, to) == Min(from + Days(MAX_CHUNK_DAYS), to)

\* `current_start = chunk_end + timedelta(seconds=1)`
NextStart(end) == end + 1

NoRunResult == [done |-> FALSE, fetched_points |-> 0, updated_ok |-> FALSE, err |-> None]

NoFetchSync == [written |-> FALSE, last_error |-> None, new_success |-> FALSE]

FetchInit ==
    /\ fetch_pc = "idle"
    /\ start_date = 0
    /\ end_date = 0
    /\ current_start = 0
    /\ chunk_end = 0
    /\ chunk_no = 0
    /\ page = 0
    /\ sent = << >>
    /\ all_measurements = << >>
    /\ run_result = NoRunResult
    /\ fetch_sync = NoFetchSync

FetchIdle ==
    /\ fetch_pc = "off"
    /\ start_date = 0
    /\ end_date = 0
    /\ current_start = 0
    /\ chunk_end = 0
    /\ chunk_no = 0
    /\ page = 0
    /\ sent = << >>
    /\ all_measurements = << >>
    /\ run_result = NoRunResult
    /\ fetch_sync = NoFetchSync

\* the head of `while current_start < end_date` with current_start = from:
\* the next chunk, or `return all_measurements`
EnterChunk(from) ==
    /\ current_start' = from
    /\ IF from < end_date
          THEN /\ chunk_end' = ChunkEnd(from, end_date)
               /\ chunk_no' = chunk_no + 1
               /\ page' = 0
               /\ fetch_pc' = "page"
          ELSE /\ fetch_pc' = "returned"
               /\ UNCHANGED <<chunk_end, chunk_no, page>>

\* run_one calls fetch_sensor_data(sensor_id, from_dt, to_dt)
FetchSensorData(first, last) ==
    /\ UNCHANGED otherThanFetch
    /\ fetch_pc = "idle"
    /\ start_date' = first
    /\ end_date' = last
    /\ current_start' = first
    /\ IF first < last
          THEN /\ chunk_end' = ChunkEnd(first, last)
               /\ chunk_no' = 1
               /\ fetch_pc' = "page"
          ELSE /\ chunk_end' = 0
               /\ chunk_no' = 0
               /\ fetch_pc' = "returned"
    /\ page' = 0
    /\ sent' = << >>
    /\ all_measurements' = << >>
    /\ run_result' = NoRunResult
    /\ fetch_sync' = NoFetchSync

\* one pass of the inner `while True`: the request of a page and what follows
\* its answer o
RequestPage(o) ==
    /\ UNCHANGED otherThanFetch
    /\ fetch_pc = "page"
    /\ sent' = Append(sent,
                 [chunk |-> chunk_no, dateFrom |-> FormatMinute(current_start),
                  dateTo |-> FormatMinute(chunk_end), page |-> page,
                  kind |-> o.kind, count |-> o.count])
    /\ all_measurements' =
           all_measurements \o [i \in 1..o.count |-> <<chunk_no, page, i>>]
    /\ IF o.kind # "error" /\ page + 1 < o.total_pages
          THEN /\ page' = page + 1
               /\ UNCHANGED <<fetch_pc, current_start, chunk_end, chunk_no>>
          ELSE EnterChunk(NextStart(chunk_end))
    /\ UNCHANGED <<start_date, end_date, run_result, fetch_sync>>

\* run_one after fetch_sensor_data returned: cache_measurements when something
\* was fetched, then upsert_sync_state(last_success_at=_now(), last_error=None)
\* and `return (len(fetched), True, None)`
RunOneRecordsSuccess ==
    /\ UNCHANGED otherThanFetch
    /\ fetch_pc = "returned"
    /\ fetch_pc' = "done"
    /\ run_result' = [done |-> TRUE, fetched_points |-> Len(all_measurements),
                      updated_ok |-> TRUE, err |-> None]
    /\ fetch_sync' = [written |-> TRUE, last_error |-> None, new_success |-> TRUE]
    /\ UNCHANGED <<start_date, end_date, current_start, chunk_end, chunk_no, page, sent,
                   all_measurements>>

\* cache_measurements or a database read raises: the `except Exception` branch
\* writes last_error and returns (0, False, err)
RunOneRecordsError ==
    /\ UNCHANGED otherThanFetch
    /\ fetch_pc = "returned"
    /\ fetch_pc' = "done"
    /\ run_result' = [done |-> TRUE, fetched_points |-> 0, updated_ok |-> FALSE,
                      err |-> <<"database is locked">>]
    /\ fetch_sync' = [written |-> TRUE, last_error |-> <<"database is locked">>,
                      new_success |-> FALSE]
    /\ UNCHANGED <<start_date, end_date, current_start, chunk_end, chunk_no, page, sent,
                   all_measurements>>

\* the task of the next sensor
NextSensor ==
    /\ UNCHANGED otherThanFetch
    /\ fetch_pc = "done"
    /\ fetch_pc' = "idle"
    /\ start_date' = 0
    /\ end_date' = 0
    /\ current_start' = 0
    /\ chunk_end' = 0
    /\ chunk_no' = 0
    /\ page' = 0
    /\ sent' = << >>
    /\ all_measurements' = << >>
    /\ run_result' = NoRunResult
    /\ fetch_sync' = NoFetchSync

FetchNext ==
    \/ \E s \in WindowStarts, d \in WindowSpans : FetchSensorData(s, s + d)
    \/ \E o \in PageOutcomes : RequestPage(o)
    \/ RunOneRecordsSuccess
    \/ RunOneRecordsError
    \/ NextSensor

(***************************************************************************)
(* The timing of the two loops: _hourly_loop, _weekly_loop and             *)
(* _maybe_run_weekly against the wall clock, the run lock and the          *)
(* weekly_sweep row of job_state, with manual sweeps beside them.          *)
(* A task that is ready runs before the clock moves on, and a wait_for     *)
(* times out when its deadline comes.                                      *)
(***************************************************************************)
TickSeconds == 1800

MaxWall == 7200

\* check_every_s of _weekly_loop
CHECK_EVERY_S == 3600

RefreshIntervals == {3600}

WeeklyIntervals == {7200}

\* no time: a local not yet assigned, and a last_success_at that is NULL
Never == -1

LoopNames == {"hourly", "weekly"}

\* the whole interval is slept, however long the run took
SleepWholeInterval(interval, elapsed) == interval

\* sleep_s = max(0, interval - elapsed)
SleepSeconds(interval, elapsed) == Max(0, interval - elapsed)

\* interval = max(1, int(self.settings.refresh_interval_seconds))
HourlyInterval == Max(1, refresh_interval_seconds)

\* interval = max(1, int(self.settings.weekly_sweep_interval_seconds))
WeeklyInterval == Max(1, weekly_sweep_interval_seconds)

\* a sweep is started whatever the due check finds
AlwaysDue(at, last_success) == TRUE

\* not (last_success and (now - last_success).total_seconds() < interval)
IsDue(at, last_success) ==
    ~(last_success # Never /\ at - last_success < WeeklyInterval)

NoHourlyLog ==
    [started |-> Never, first_call |-> Never, runs |-> 0, outcome |-> "none",
     began_at |-> Never, ended_at |-> Never, woke_at |-> Never]

NoPollLog == [made |-> FALSE, now |-> Never, last_success |-> Never, started |-> FALSE]

NoSweepLog ==
    [began |-> FALSE, began_at |-> Never, ended |-> FALSE, ok |-> FALSE,
     success_before |-> Never, success_after |-> Never]

SchedInit ==
    /\ wall = 0
    /\ refresh_interval_seconds \in RefreshIntervals
    /\ weekly_sweep_interval_seconds \in WeeklyIntervals
    /\ stop_event = FALSE
    /\ loop_pc = [l \in LoopNames |-> "off"]
    /\ hourly_started_at = Never
    /\ weekly_now = Never
    /\ deadline = [l \in LoopNames |-> Never]
    /\ lock_holder = "none"
    /\ manual_pc = "idle"
    /\ (weekly_success_at = Never \/ weekly_success_at = 0)
    /\ hourly_log = NoHourlyLog
    /\ poll_log = NoPollLog
    /\ sweep_log = NoSweepLog

SchedIdle ==
    /\ wall = 0
    /\ refresh_interval_seconds = 0
    /\ weekly_sweep_interval_seconds = 0
    /\ stop_event = FALSE
    /\ loop_pc = << >>
    /\ hourly_started_at = Never
    /\ weekly_now = Never
    /\ deadline = << >>
    /\ lock_holder = "none"
    /\ manual_pc = "idle"
    /\ weekly_success_at = Never
    /\ hourly_log = NoHourlyLog
    /\ poll_log = NoPollLog
    /\ sweep_log = NoSweepLog

\* the callers of _run_job that wait for the run lock
LockWaiters ==
    {l \in LoopNames : loop_pc[l] = "call"} \cup
    (IF manual_pc = "call" THEN {"manual"} ELSE {})

\* the deadlines of the wait_for calls in progress
PendingDeadlines == {deadline[l] : l \in {w \in LoopNames : loop_pc[w] = "wait"}}

\* some task is ready to run: the clock does not move before it has run
SomeTaskReady ==
    \/ \E l \in LoopNames : loop_pc[l] \in {"top", "read"}
    \/ \E l \in LoopNames : loop_pc[l] = "wait" /\ deadline[l] <= wall
    \/ (lock_holder = "none" /\ LockWaiters # {})

\* time passes, up to the next deadline
Advance ==
    /\ UNCHANGED otherThanSched
    /\ ~SomeTaskReady
    /\ LET step == wall + TickSeconds
           next == IF \E d \in PendingDeadlines : d < step
                      THEN CHOOSE d \in PendingDeadlines : \A e \in PendingDeadlines : d <= e
                      ELSE step
       IN /\ next <= MaxWall
          /\ wall' = next
    /\ UNCHANGED <<refresh_interval_seconds, weekly_sweep_interval_seconds, stop_event, loop_pc,
                   hourly_started_at, weekly_now, deadline, lock_holder, manual_pc,
                   weekly_success_at, hourly_log, poll_log, sweep_log>>

\* start(): the two loop tasks are created
StartLoops ==
    /\ UNCHANGED otherThanSched
    /\ \A l \in LoopNames : loop_pc[l] = "off"
    /\ loop_pc' = [l \in LoopNames |-> "top"]
    /\ hourly_log' = [hourly_log EXCEPT !.started = wall]
    /\ UNCHANGED <<wall, refresh_interval_seconds, weekly_sweep_interval_seconds, stop_event,
                   hourly_started_at, weekly_now, deadline, lock_holder, manual_pc,
                   weekly_success_at, poll_log, sweep_log>>

\* stop(): the event is set and the loop tasks are cancelled; a loop inside
\* _run_job leaves the `async with` and the lock is released
StopLoops ==
    /\ UNCHANGED otherThanSched
    /\ ~stop_event
    /\ stop_event' = TRUE
    /\ loop_pc' = [l \in LoopNames |->
                      IF loop_pc[l] \in {"off"} THEN "off" ELSE "exited"]
    /\ lock_holder' = IF lock_holder \in LoopNames THEN "none" ELSE lock_holder
    /\ UNCHANGED <<wall, refresh_interval_seconds, weekly_sweep_interval_seconds,
                   hourly_started_at, weekly_now, deadline, manual_pc,
                   weekly_success_at, hourly_log, poll_log, sweep_log>>

\* start() after stop(): the tasks are created with the event already set
StartStopped ==
    /\ UNCHANGED otherThanSched
    /\ stop_event
    /\ \A l \in LoopNames : loop_pc[l] = "off"
    /\ loop_pc' = [l \in LoopNames |-> "top"]
    /\ hourly_log' = [hourly_log EXCEPT !.started = wall]
    /\ UNCHANGED <<wall, refresh_interval_seconds, weekly_sweep_interval_seconds, stop_event,
                   hourly_started_at, weekly_now, deadline, lock_holder, manual_pc,
                   weekly_success_at, poll_log, sweep_log>>

\* _hourly_loop: `while not stop_event.is_set(): started_at = _now()` and
\* the call of run_hourly_once
HourlyTop ==
    /\ UNCHANGED otherThanSched
    /\ loop_pc["hourly"] = "top"
    /\ IF stop_event
          THEN /\ loop_pc' = [loop_pc EXCEPT !["hourly"] = "exited"]
               /\ UNCHANGED <<hourly_started_at, hourly_log>>
          ELSE /\ loop_pc' = [loop_pc EXCEPT !["hourly"] = "call"]
               /\ hourly_started_at' = wall
               /\ hourly_log' = [hourly_log EXCEPT
                      !.first_call = IF hourly_log.first_call = Never THEN wall ELSE @,
                      !.began_at = wall]
    /\ UNCHANGED <<wall, refresh_interval_seconds, weekly_sweep_interval_seconds, stop_event,
                   weekly_now, deadline, lock_holder, manual_pc,
                   weekly_success_at, poll_log, sweep_log>>

\* _weekly_loop: `while not stop_event.is_set()` and _maybe_run_weekly up to
\* `now = _now()`
WeeklyTop ==
    /\ UNCHANGED otherThanSched
    /\ loop_pc["weekly"] = "top"
    /\ IF stop_event
          THEN /\ loop_pc' = [loop_pc EXCEPT !["weekly"] = "exited"]
               /\ UNCHANGED weekly_now
          ELSE /\ loop_pc' = [loop_pc EXCEPT !["weekly"] = "read"]
               /\ weekly_now' = wall
    /\ UNCHANGED <<wall, refresh_interval_seconds, weekly_sweep_interval_seconds, stop_event,
                   hourly_started_at, deadline, lock_holder, manual_pc,
                   weekly_success_at, hourly_log, poll_log, sweep_log>>

\* _maybe_run_weekly from get_job_state's answer: not due, it returns and
\* the loop waits check_every_s; due, it calls run_weekly_once
MaybeRunWeekly ==
    /\ UNCHANGED otherThanSched
    /\ loop_pc["weekly"] = "read"
    /\ LET due == IsDue(weekly_now, weekly_success_at)
       IN /\ poll_log' = [made |-> TRUE, now |-> weekly_now,
                          last_success |-> weekly_success_at, started |-> due]
          /\ IF due
                THEN /\ loop_pc' = [loop_pc EXCEPT !["weekly"] = "call"]
                     /\ UNCHANGED deadline
                ELSE /\ loop_pc' = [loop_pc EXCEPT !["weekly"] = "wait"]
                     /\ deadline' = [deadline EXCEPT !["weekly"] = wall + CHECK_EVERY_S]
    /\ UNCHANGED <<wall, refresh_interval_seconds, weekly_sweep_interval_seconds, stop_event,
                   hourly_started_at, weekly_now, lock_holder, manual_pc,
                   weekly_success_at, hourly_log, sweep_log>>

\* POST /refresh/sweep calls run_weekly_once
ManualSweep ==
    /\ UNCHANGED otherThanSched
    /\ manual_pc = "idle"
    /\ manual_pc' = "call"
    /\ UNCHANGED <<wall, refresh_interval_seconds, weekly_sweep_interval_seconds, stop_event, loop_pc,
                   hourly_started_at, weekly_now, deadline, lock_holder,
                   weekly_success_at, hourly_log, poll_log, sweep_log>>

\* _run_job: `async with self._get_lock(): started_at = _now()`
EnterRun(who) ==
    /\ UNCHANGED otherThanSched
    /\ who \in LockWaiters
    /\ lock_holder = "none"
    /\ lock_holder' = who
    /\ IF who = "manual"
          THEN /\ manual_pc' = "run"
               /\ UNCHANGED loop_pc
          ELSE /\ loop_pc' = [loop_pc EXCEPT ![who] = "run"]
               /\ UNCHANGED manual_pc
    /\ sweep_log' = IF who = "weekly"
                       THEN [sweep_log EXCEPT !.began = TRUE, !.began_at = wall]
                       ELSE sweep_log
    /\ UNCHANGED <<wall, refresh_interval_seconds, weekly_sweep_interval_seconds, stop_event,
                   hourly_started_at, weekly_now, deadline,
                   weekly_success_at, hourly_log, poll_log>>

\* the run of a loop ends, with its result or with an exception that the
\* loop's `except Exception` logs, and the loop starts its wait_for
LoopRunEnds(l, ok) ==
    /\ UNCHANGED otherThanSched
    /\ l \in LoopNames
    /\ loop_pc[l] = "run"
    /\ lock_holder = l
    /\ lock_holder' = "none"
    /\ loop_pc' = [loop_pc EXCEPT ![l] = "wait"]
    /\ IF l = "hourly"
          THEN /\ deadline' = [deadline EXCEPT
                      ![l] = wall + SleepSeconds(HourlyInterval, wall - hourly_started_at)]
               /\ hourly_log' = [hourly_log EXCEPT
                      !.runs = Min(@ + 1, 2),
                      !.outcome = IF ok THEN "ok" ELSE "raised",
                      !.ended_at = wall]
               /\ UNCHANGED <<weekly_success_at, sweep_log>>
          ELSE /\ deadline' = [deadline EXCEPT ![l] = wall + CHECK_EVERY_S]
               /\ weekly_success_at' = IF ok THEN wall ELSE weekly_success_at
               /\ sweep_log' = [sweep_log EXCEPT
                      !.ended = TRUE, !.ok = ok,
                      !.success_before = weekly_success_at,
                      !.success_after = IF ok THEN wall ELSE weekly_success_at]
               /\ UNCHANGED hourly_log
    /\ UNCHANGED <<wall, refresh_interval_seconds, weekly_sweep_interval_seconds, stop_event,
                   hourly_started_at, weekly_now, manual_pc, poll_log>>

\* a manual sweep ends: upsert_job_state with last_success_at = finished_at,
\* or with Never, which COALESCE turns into the stored value
ManualSweepEnds(ok) ==
    /\ UNCHANGED otherThanSched
    /\ manual_pc = "run"
    /\ lock_holder = "manual"
    /\ lock_holder' = "none"
    /\ manual_pc' = "done"
    /\ weekly_success_at' = IF ok THEN wall ELSE weekly_success_at
    /\ sweep_log' = [sweep_log EXCEPT
           !.ended = TRUE, !.ok = ok,
           !.success_before = weekly_success_at,
           !.success_after = IF ok THEN wall ELSE weekly_success_at]
    /\ UNCHANGED <<wall, refresh_interval_seconds, weekly_sweep_interval_seconds, stop_event, loop_pc,
                   hourly_started_at, weekly_now, deadline, hourly_log, poll_log>>

\* wait_for(stop_event.wait(), timeout) times out: `continue`
WaitTimesOut(l) ==
    /\ UNCHANGED otherThanSched
    /\ l \in LoopNames
    /\ loop_pc[l] = "wait"
    /\ deadline[l] <= wall
    /\ loop_pc' = [loop_pc EXCEPT ![l] = "top"]
    /\ hourly_log' = IF l = "hourly" THEN [hourly_log EXCEPT !.woke_at = wall] ELSE hourly_log
    /\ UNCHANGED <<wall, refresh_interval_seconds, weekly_sweep_interval_seconds, stop_event,
                   hourly_started_at, weekly_now, deadline, lock_holder, manual_pc,
                   weekly_success_at, poll_log, sweep_log>>

SchedNext ==
    \/ Advance
    \/ StartLoops
    \/ StopLoops
    \/ StartStopped
    \/ HourlyTop
    \/ WeeklyTop
    \/ MaybeRunWeekly
    \/ ManualSweep
    \/ \E who \in LoopNames \cup {"manual"} : EnterRun(who)
    \/ \E l \in LoopNames, ok \in BOOLEAN : LoopRunEnds(l, ok)
    \/ \E ok \in BOOLEAN : ManualSweepEnds(ok)
    \/ \E l \in LoopNames : WaitTimesOut(l)

(***************************************************************************)
(* The two comparisons of compute_year_ranking, over the days of one city: *)
(* each city-day value against the threshold, in city_stats, and the       *)
(* count of the days above it against the allowed number, in the row.      *)
(***************************************************************************)
MaxCityDays == 20

\* city_day_value of a day, as a fraction: 44, 45 as the average 135/3 of
\* three stations, and 45.5
DayValues == {<<44, 1>>, <<135, 3>>, <<91, 2>>}

NoCityRow == [computed |-> FALSE]

TotalDays(days) == days[<<44, 1>>] + days[<<135, 3>>] + days[<<91, 2>>]

\* SUM(CASE WHEN cd.city_day_value > ? THEN 1 ELSE 0 END)
ExceedanceDays(days) ==
    (IF Exceeds(<<44, 1>>, EU_PM10_THRESHOLD) THEN days[<<44, 1>>] ELSE 0)
    + (IF Exceeds(<<135, 3>>, EU_PM10_THRESHOLD) THEN days[<<135, 3>>] ELSE 0)
    + (IF Exceeds(<<91, 2>>, EU_PM10_THRESHOLD) THEN days[<<91, 2>>] ELSE 0)

\* the city_stats row of the city
CityStatsRow(days) ==
    [city |-> "CityA",
     exceedance_days |-> ExceedanceDays(days),
     days_with_data |-> TotalDays(days),
     exceedance_pct |-> RoundPct(ExceedanceDays(days), TotalDays(days)),
     stations_count |-> 3]

ExceedInit ==
    /\ city_days = [v \in DayValues |-> 0]
    /\ city_row = NoCityRow

ExceedIdle ==
    /\ city_days = << >>
    /\ city_row = NoCityRow

\* a refresh stores the measurements of one more day of the city
StoreCityDay(v) ==
    /\ UNCHANGED otherThanExceed
    /\ city_days # << >>
    /\ TotalDays(city_days) < MaxCityDays
    /\ city_days' = [city_days EXCEPT ![v] = @ + 1]
    /\ city_row' = NoCityRow

\* compute_year_ranking over the city's days
ComputeCityRow ==
    /\ UNCHANGED otherThanExceed
    /\ city_days # << >>
    /\ TotalDays(city_days) > 0
    /\ city_row' = [computed |-> TRUE, row |-> RankedRows(<<CityStatsRow(city_days)>>)[1]]
    /\ UNCHANGED city_days

ExceedNext ==
    \/ \E v \in DayValues : StoreCityDay(v)
    \/ ComputeCityRow

(***************************************************************************)
(* The summary _refresh_targets builds from the results of its run_one     *)
(* tasks.  gather returns the results in the order of the targets, so the  *)
(* order in which the tasks end plays no part.                             *)
(***************************************************************************)
MaxTargets == 32

\* errors[:20]
ERRORS_CAP == 20

\* the returns of run_one for the target i: (len(fetched), True, None) with
\* and without points, (0, False, err) and (0, False, None)
RunOneReturn(ret, i) ==
    CASE ret = "updated" -> [fetched_count |-> 2, updated_ok |-> TRUE, err |-> None, skipped |-> FALSE]
      [] ret = "no_data" -> [fetched_count |-> 0, updated_ok |-> TRUE, err |-> None, skipped |-> FALSE]
      [] ret = "failed"  -> [fetched_count |-> 0, updated_ok |-> FALSE, err |-> <<i>>, skipped |-> FALSE]
      [] ret = "skipped" -> [fetched_count |-> 0, updated_ok |-> FALSE, err |-> None, skipped |-> TRUE]

ReturnKinds == {"updated", "no_data", "failed", "skipped"}

\* the results of a run over n targets whose outcomes repeat with period 3
GatherResults ==
    {[i \in 1..n |-> RunOneReturn(p[((i - 1) % 3) + 1], i)] :
        n \in 0..MaxTargets, p \in [1..3 -> ReturnKinds]}

\* the whole list, uncapped
AllErrors(list) == list

\* errors[:20]
CapErrors(list) == SubSeq(list, 1, Min(ERRORS_CAP, Len(list)))

NoSummary == [returned |-> FALSE]

SummaryInit ==
    /\ gathered \in GatherResults
    /\ gather_i = 0
    /\ fetched_points = 0
    /\ updated_sensors = 0
    /\ errors = << >>
    /\ run_summary = NoSummary

SummaryIdle ==
    /\ gathered = << >>
    /\ gather_i = -1
    /\ fetched_points = 0
    /\ updated_sensors = 0
    /\ errors = << >>
    /\ run_summary = NoSummary

\* one turn of `for fetched_count, updated_ok, err in results`
TakeResult ==
    /\ UNCHANGED otherThanSummary
    /\ gather_i >= 0
    /\ gather_i < Len(gathered)
    /\ LET r == gathered[gather_i + 1]
       IN /\ fetched_points' = fetched_points + r.fetched_count
          /\ updated_sensors' = IF r.updated_ok THEN updated_sensors + 1 ELSE updated_sensors
          /\ errors' = IF r.err # None THEN Append(errors, r.err) ELSE errors
    /\ gather_i' = gather_i + 1
    /\ UNCHANGED <<gathered, run_summary>>

\* the return of _refresh_targets, with "sensors": len(targets) of the caller
ReturnSummary ==
    /\ UNCHANGED otherThanSummary
    /\ gather_i = Len(gathered)
    /\ ~run_summary.returned
    /\ run_summary' = [returned |-> TRUE,
                       sensors |-> Len(gathered),
                       updated_sensors |-> updated_sensors,
                       fetched_points |-> fetched_points,
                       errors |-> CapErrors(errors),
                       error_count |-> Len(errors)]
    /\ UNCHANGED <<gathered, gather_i, fetched_points, updated_sensors, errors>>

SummaryNext ==
    \/ TakeResult
    \/ ReturnSummary

(***************************************************************************)
(* The hourly runs of one sensor against an upstream that has one          *)
(* measurement for every hour from upstream_first on.  Times are whole     *)
(* hours.  The requests of the full backfill can fail; every later one     *)
(* succeeds.                                                               *)
(***************************************************************************)
\* history_years and the 365 days of a chunk, in hours
HistoryHours == 6
ChunkHours == 1
OverlapHours == 1

StartHour == 7
MaxHour == 9
MaxFaults == 1
NoHour == Never

\* what the upstream holds at the hour n
UpstreamHours(n) == upstream_first..n

\* MAX(date) and MIN(date) of the sensor's rows
MaxHourOf(hours) == CHOOSE h \in hours : \A g \in hours : g <= h
MinHourOf(hours) == CHOOSE h \in hours : \A g \in hours : h <= g

\* run_one of an hourly run, from `to_dt = now` to the call of
\* fetch_sensor_data
HourlyWindow(hours, n) ==
    LET history_start == n - HistoryHours
        plan == IF hours = {}
                   THEN [from_dt |-> history_start, to_dt |-> n]
                ELSE IF MinHourOf(hours) > history_start
                   THEN [from_dt |-> history_start, to_dt |-> MinHourOf(hours)]
                ELSE [from_dt |-> MaxHourOf(hours) - OverlapHours, to_dt |-> n]
    IN IF plan.from_dt > plan.to_dt
          THEN [from_dt |-> plan.to_dt - OverlapHours, to_dt |-> plan.to_dt]
          ELSE plan

\* the last hour of the chunk that starts at current_start: the first chunk
\* starts on the hour, every later one a second after the end of the one
\* before it
ChunkLastHour == Min(IF gap_chunks = 0 THEN gap_start + ChunkHours ELSE gap_start + ChunkHours - 1, gap_to)

\* `while current_start < end_date`
MoreChunks == IF gap_chunks = 0 THEN gap_start < gap_to ELSE gap_start <= gap_to

GapInit ==
    /\ gap_now = StartHour
    /\ upstream_first \in 0..StartHour
    /\ gap_cached = {}
    /\ gap_pc = "idle"
    /\ gap_from = 0
    /\ gap_to = 0
    /\ gap_start = 0
    /\ gap_chunks = 0
    /\ gap_got = {}
    /\ faults \in 0..MaxFaults
    /\ missed = NoHour

GapIdle ==
    /\ gap_now = 0
    /\ upstream_first = 0
    /\ gap_cached = {}
    /\ gap_pc = "off"
    /\ gap_from = 0
    /\ gap_to = 0
    /\ gap_start = 0
    /\ gap_chunks = 0
    /\ gap_got = {}
    /\ faults = 0
    /\ missed = NoHour

\* an hour passes between two runs
HourPasses ==
    /\ UNCHANGED otherThanGap
    /\ gap_pc = "idle"
    /\ gap_now < MaxHour
    /\ gap_now' = gap_now + 1
    /\ UNCHANGED <<upstream_first, gap_cached, gap_pc, gap_from, gap_to, gap_start,
                   gap_chunks, gap_got, faults, missed>>

\* run_one of an hourly run plans its window and calls fetch_sensor_data
HourlyRunOne ==
    /\ UNCHANGED otherThanGap
    /\ gap_pc = "idle"
    /\ LET plan == HourlyWindow(gap_cached, gap_now)
       IN /\ gap_from' = plan.from_dt
          /\ gap_to' = plan.to_dt
          /\ gap_start' = plan.from_dt
    /\ gap_chunks' = 0
    /\ gap_got' = {}
    /\ gap_pc' = "fetching"
    /\ UNCHANGED <<gap_now, upstream_first, gap_cached, faults, missed>>

\* fetch_sensor_data asks for one chunk: it adds what it gets, or prints the
\* error of the request and goes on with the next chunk
FetchChunk(ok) ==
    /\ UNCHANGED otherThanGap
    /\ gap_pc = "fetching"
    /\ MoreChunks
    /\ LET chunk == gap_start..ChunkLastHour
           there == chunk \cap UpstreamHours(gap_now)
       IN /\ \/ /\ ok
                /\ gap_got' = gap_got \cup there
                /\ UNCHANGED <<faults, missed>>
             \/ /\ ~ok
                /\ gap_cached = {}
                /\ faults > 0
                /\ faults' = faults - 1
                /\ gap_got' = gap_got
                /\ \/ there = {} /\ missed' = missed
                   \/ \E h \in there : missed' = h
          /\ gap_start' = ChunkLastHour + 1
    /\ gap_chunks' = gap_chunks + 1
    /\ UNCHANGED <<gap_now, upstream_first, gap_cached, gap_pc, gap_from, gap_to>>

\* fetch_sensor_data returns; `if fetched: cache_measurements(...)` and the
\* success write of run_one
StoreFetched ==
    /\ UNCHANGED otherThanGap
    /\ gap_pc = "fetching"
    /\ ~MoreChunks
    /\ gap_cached' = gap_cached \cup gap_got
    /\ gap_pc' = "idle"
    /\ UNCHANGED <<gap_now, upstream_first, gap_from, gap_to, gap_start, gap_chunks,
                   gap_got, faults, missed>>

GapNext ==
    \/ HourPasses
    \/ HourlyRunOne
    \/ \E ok \in BOOLEAN : FetchChunk(ok)
    \/ StoreFetched

\* the hours pass, the hourly loop starts run after run, and a run goes on
\* to its end
GapFairness ==
    /\ WF_vars(HourPasses)
    /\ WF_vars(HourlyRunOne)
    /\ WF_vars(\E ok \in BOOLEAN : FetchChunk(ok))
    /\ WF_vars(StoreFetched)

(***************************************************************************)
(* Specifications.                                                         *)
(***************************************************************************)
CoordIdle ==
    /\ refresh_concurrency = 0
    /\ run_lock = [created |-> FALSE, locked |-> FALSE]
    /\ sem = [created |-> FALSE, value |-> 0]
    /\ stop_set = FALSE
    /\ loops_started = FALSE
    /\ pc = << >>
    /\ kind = << >>
    /\ cancel_req = << >>
    /\ tasks = << >>

Init == CoordInit /\ RateIdle /\ StoreIdle /\ PlanIdle /\ RequestIdle /\ SyncIdle /\ JobIdle /\ RankingCacheIdle /\ RankingIdle /\ TrendsIdle /\ ApiIdle /\ FetchIdle /\ SchedIdle /\ ExceedIdle /\ SummaryIdle /\ GapIdle

Next == CoordNext

Spec == Init /\ [][Next]_vars

\* the steps of one loop task, from the top of its loop through _run_job
LoopStep(p) ==
    \/ (p = "hourly_loop" /\ HourlyLoopTop)
    \/ (p = "weekly_loop" /\ WeeklyLoopTop)
    \/ AcquireLock(p)
    \/ Setup(p)
    \/ GatherDone(p)
    \/ GatherRaise(p)
    \/ RecordOk(p)
    \/ RecordFail(p)
    \/ Sleep(p)
    \/ LoopCancelled(p)
    \/ GatherCancel(p)
    \/ GatherCancelled(p)

\* the steps of the sensor tasks of one pool
TaskStep(k) ==
    \/ TaskAcquireSem(k)
    \/ TaskPlan(k)
    \/ TaskFetch(k)
    \/ TaskStore(k)
    \/ TaskHandler(k)
    \/ TaskCancelled(k)

\* the event loop runs every task that is ready: a loop task that can take a
\* step takes one, and so do the sensor tasks of the loops' runs; start(),
\* stop() and the manual runs are up to the environment
CoordFairness ==
    /\ \A p \in Loops : WF_vars(LoopStep(p))
    /\ \A k \in Loops \cup {"left_cancelled"} : WF_vars(TaskStep(k))

\* CoordNext with the manual runs that are made once the loops have ended
NextFair ==
    \/ Start
    \/ Stop
    \/ ((\A p \in Loops : pc[p] = "exited") /\ ManualRun)
    \/ \E p \in Callers : LoopStep(p)
    \/ \E k \in Pools : TaskStep(k)

SpecFair == Init /\ [][NextFair]_vars /\ CoordFairness

InitRate == RateInit /\ CoordIdle /\ StoreIdle /\ PlanIdle /\ RequestIdle /\ SyncIdle /\ JobIdle /\ RankingCacheIdle /\ RankingIdle /\ TrendsIdle /\ ApiIdle /\ FetchIdle /\ SchedIdle /\ ExceedIdle /\ SummaryIdle /\ GapIdle

NextRate == RateNext

SpecRate == InitRate /\ [][NextRate]_vars

InitStore == StoreInit /\ CoordIdle /\ RateIdle /\ PlanIdle /\ RequestIdle /\ SyncIdle /\ JobIdle /\ RankingCacheIdle /\ RankingIdle /\ TrendsIdle /\ ApiIdle /\ FetchIdle /\ SchedIdle /\ ExceedIdle /\ SummaryIdle /\ GapIdle

NextStore == StoreNext

SpecStore == InitStore /\ [][NextStore]_vars

InitPlan == PlanInit /\ CoordIdle /\ RateIdle /\ StoreIdle /\ RequestIdle /\ SyncIdle /\ JobIdle /\ RankingCacheIdle /\ RankingIdle /\ TrendsIdle /\ ApiIdle /\ FetchIdle /\ SchedIdle /\ ExceedIdle /\ SummaryIdle /\ GapIdle

NextPlan == PlanNext

SpecPlan == InitPlan /\ [][NextPlan]_vars

InitRequest == RequestInit /\ CoordIdle /\ RateIdle /\ StoreIdle /\ PlanIdle /\ SyncIdle /\ JobIdle /\ RankingCacheIdle /\ RankingIdle /\ TrendsIdle /\ ApiIdle /\ FetchIdle /\ SchedIdle /\ ExceedIdle /\ SummaryIdle /\ GapIdle

NextRequest == RequestNext

SpecRequest == InitRequest /\ [][NextRequest]_vars

InitSync == SyncInit /\ CoordIdle /\ RateIdle /\ StoreIdle /\ PlanIdle /\ RequestIdle /\ JobIdle /\ RankingCacheIdle /\ RankingIdle /\ TrendsIdle /\ ApiIdle /\ FetchIdle /\ SchedIdle /\ ExceedIdle /\ SummaryIdle /\ GapIdle

NextSync == SyncNext

SpecSync == InitSync /\ [][NextSync]_vars

InitJob == JobInit /\ CoordIdle /\ RateIdle /\ StoreIdle /\ PlanIdle /\ RequestIdle /\ SyncIdle /\ RankingCacheIdle /\ RankingIdle /\ TrendsIdle /\ ApiIdle /\ FetchIdle /\ SchedIdle /\ ExceedIdle /\ SummaryIdle /\ GapIdle

NextJob == JobNext

SpecJob == InitJob /\ [][NextJob]_vars

InitRankingCache == RankingCacheInit /\ CoordIdle /\ RateIdle /\ StoreIdle /\ PlanIdle /\ RequestIdle /\ SyncIdle /\ JobIdle /\ RankingIdle /\ TrendsIdle /\ ApiIdle /\ FetchIdle /\ SchedIdle /\ ExceedIdle /\ SummaryIdle /\ GapIdle

NextRankingCache == RankingCacheNext

SpecRankingCache == InitRankingCache /\ [][NextRankingCache]_vars

InitRanking == RankingInit /\ CoordIdle /\ RateIdle /\ StoreIdle /\ PlanIdle /\ RequestIdle /\ SyncIdle /\ JobIdle /\ RankingCacheIdle /\ TrendsIdle /\ ApiIdle /\ FetchIdle /\ SchedIdle /\ ExceedIdle /\ SummaryIdle /\ GapIdle

NextRanking == RankingNext

SpecRanking == InitRanking /\ [][NextRanking]_vars

InitTrends == TrendsInit /\ CoordIdle /\ RateIdle /\ StoreIdle /\ PlanIdle /\ RequestIdle /\ SyncIdle /\ JobIdle /\ RankingCacheIdle /\ RankingIdle /\ ApiIdle /\ FetchIdle /\ SchedIdle /\ ExceedIdle /\ SummaryIdle /\ GapIdle

NextTrends == TrendsNext

SpecTrends == InitTrends /\ [][NextTrends]_vars

InitApi == ApiInit /\ CoordIdle /\ RateIdle /\ StoreIdle /\ PlanIdle /\ RequestIdle /\ SyncIdle /\ JobIdle /\ RankingCacheIdle /\ RankingIdle /\ TrendsIdle /\ FetchIdle /\ SchedIdle /\ ExceedIdle /\ SummaryIdle /\ GapIdle

NextApi == ApiNext

SpecApi == InitApi /\ [][NextApi]_vars

InitFetch == FetchInit /\ CoordIdle /\ RateIdle /\ StoreIdle /\ PlanIdle /\ RequestIdle /\ SyncIdle /\ JobIdle /\ RankingCacheIdle /\ RankingIdle /\ TrendsIdle /\ ApiIdle /\ SchedIdle /\ ExceedIdle /\ SummaryIdle /\ GapIdle

NextFetch == FetchNext

SpecFetch == InitFetch /\ [][NextFetch]_vars

InitSched == SchedInit /\ CoordIdle /\ RateIdle /\ StoreIdle /\ PlanIdle /\ RequestIdle /\ SyncIdle /\ JobIdle /\ RankingCacheIdle /\ RankingIdle /\ TrendsIdle /\ ApiIdle /\ FetchIdle /\ ExceedIdle /\ SummaryIdle /\ GapIdle

NextSched == SchedNext

SpecSched == InitSched /\ [][NextSched]_vars

InitExceed == ExceedInit /\ CoordIdle /\ RateIdle /\ StoreIdle /\ PlanIdle /\ RequestIdle /\ SyncIdle /\ JobIdle /\ RankingCacheIdle /\ RankingIdle /\ TrendsIdle /\ ApiIdle /\ FetchIdle /\ SchedIdle /\ SummaryIdle /\ GapIdle

NextExceed == ExceedNext

SpecExceed == InitExceed /\ [][NextExceed]_vars

InitSummary == SummaryInit /\ CoordIdle /\ RateIdle /\ StoreIdle /\ PlanIdle /\ RequestIdle /\ SyncIdle /\ JobIdle /\ RankingCacheIdle /\ RankingIdle /\ TrendsIdle /\ ApiIdle /\ FetchIdle /\ SchedIdle /\ ExceedIdle /\ GapIdle

NextSummary == SummaryNext

SpecSummary == InitSummary /\ [][NextSummary]_vars

InitGap == GapInit /\ SummaryIdle /\ CoordIdle /\ RateIdle /\ StoreIdle /\ PlanIdle /\ RequestIdle /\ SyncIdle /\ JobIdle /\ RankingCacheIdle /\ RankingIdle /\ TrendsIdle /\ ApiIdle /\ FetchIdle /\ SchedIdle /\ ExceedIdle

NextGap == GapNext

SpecGap == InitGap /\ [][NextGap]_vars

SpecGapFair == SpecGap /\ GapFairness

(***************************************************************************)
(* C1. Mutual exclusion of job runs: at most one caller of _run_job        *)
(* (hourly loop, weekly loop or a manual run, of either kind) is between   *)
(* acquiring and releasing the run lock.                                   *)
(***************************************************************************)
MutualExclusion == Cardinality({p \in Callers : pc[p] \in InRun}) <= 1

\* a run holds the lock while another caller waits for it
MutualExclusionWitness ==
    \E p, q \in Callers : p # q /\ pc[p] = "gather" /\ pc[q] = "wait_lock"

(***************************************************************************)
(* C2. Concurrency bound: never more than max(1, refresh_concurrency)      *)
(* sensor tasks are inside the semaphore-guarded body of run_one, hence    *)
(* never more than that many fetch_sensor_data calls are in flight.        *)
(***************************************************************************)
SumOver(f, S) ==
    LET RECURSIVE Sum(_)
        Sum(T) == IF T = {} THEN 0
                  ELSE LET x == CHOOSE y \in T : TRUE IN f[x] + Sum(T \ {x})
    IN Sum(S)

InBodyCount == SumOver([k \in Pools |-> SumOver(tasks[k], InBody)], Pools)
InFlightFetches == SumOver([k \in Pools |-> tasks[k]["fetch"]], Pools)

ConcurrencyBound ==
    /\ InBodyCount <= Max(1, refresh_concurrency)
    /\ InFlightFetches <= Max(1, refresh_concurrency)

\* the bound bites: the semaphore is exhausted by fetches in flight while a
\* further task waits for it
ConcurrencyBoundWitness ==
    /\ refresh_concurrency = MaxConcurrency
    /\ InFlightFetches = MaxConcurrency
    /\ \E k \in Pools : tasks[k]["wait_sem"] > 0

(***************************************************************************)
(* C3. Archival rate limit under concurrency: any two consecutive archival *)
(* requests issued through _rate_limited_archival_request by the sensor    *)
(* tasks are at least ARCHIVAL_MIN_INTERVAL (30 s) apart.                  *)
(***************************************************************************)
ArchivalRequestsSpaced ==
    \A i \in 1..(Len(issued) - 1) : issued[i + 1] - issued[i] >= ARCHIVAL_MIN_INTERVAL

(***************************************************************************)
(* C4. cache_measurements is idempotent and last-write-wins: after a call, *)
(* a repetition of the call before it included, the table holds exactly    *)
(* one row for every (sensor_id, timestamp) the call wrote, and that row    *)
(* holds the value the call wrote last for the key, whatever value the key  *)
(* held before.                                                            *)
(***************************************************************************)
LastWritten(k) ==
    LET at == {i \in 1..Len(last_rows) : Key(last_rows[i]) = k}
    IN last_rows[CHOOSE i \in at : \A j \in at : j <= i].value

OneRowHolding(k, v) ==
    /\ Cardinality({r \in measurements : Key(r) = k}) = 1
    /\ \A r \in measurements : Key(r) = k => r.value = v

IdempotentLastWriteWins ==
    \A i \in 1..Len(last_rows) :
        OneRowHolding(Key(last_rows[i]), LastWritten(Key(last_rows[i])))

\* a batch that writes one key twice with different values has been stored
\* twice in a row
IdempotentLastWriteWinsWitness ==
    /\ repeated
    /\ Len(last_rows) = 2
    /\ Key(last_rows[1]) = Key(last_rows[2])
    /\ last_rows[1].value # last_rows[2].value
    /\ OneRowHolding(Key(last_rows[2]), last_rows[2].value)

(***************************************************************************)
(* C5. Uniqueness: once initialize() has run, the measurements table holds *)
(* at most one row per (sensor_id, timestamp), whatever cache_measurements *)
(* calls follow.                                                           *)
(***************************************************************************)
UniquenessInvariant == initialized => UniqueKeys(measurements)

\* initialize() deleted a duplicate, and the same row was then written twice
UniquenessInvariantWitness ==
    /\ initialized
    /\ repaired > 0
    /\ repeated
    /\ UniqueKeys(measurements)

(***************************************************************************)
(* The claims about the fetch window speak of run_one between its decision *)
(* and the moment the fetched rows change the cache.                       *)
(***************************************************************************)
Planned == outcome \in {"fetch", "skipped", "error"}

Fetching == plan_pc = "fetching"

NoCachedData == cached_max = None /\ cached_min = None

(***************************************************************************)
(* C6. Full backfill: in an hourly run, a sensor with no cached            *)
(* measurements is fetched with the window [now - historyYears, now]; for  *)
(* historyYears = 15 and now = 2024-06-01 that is [2009-06-01,             *)
(* 2024-06-01].  As claimed, for every historyYears:                       *)
(***************************************************************************)
FullBackfillAnyYears ==
    (Fetching /\ window = "hourly" /\ NoCachedData) =>
        /\ from_dt = MinusYears(now, history_years)
        /\ to_dt = now

(***************************************************************************)
(* C6, as the code has it: the window is [now - historyYears, now] when    *)
(* historyYears > 0 (years counted on the calendar, 29 February going to   *)
(* 28 February); with historyYears = 0 the sensor is not fetched at all,   *)
(* and with a negative historyYears the window is [now - overlap, now].    *)
(***************************************************************************)
FullBackfillWindow ==
    (Planned /\ window = "hourly" /\ NoCachedData) =>
        /\ history_years > 0 =>
             /\ outcome = "fetch"
             /\ from_dt = MinusYears(now, history_years)
             /\ to_dt = now
        /\ history_years = 0 => outcome = "skipped"
        /\ history_years < 0 =>
             /\ outcome = "fetch"
             /\ from_dt = now - refresh_overlap_seconds
             /\ to_dt = now
        /\ (history_years = 15 /\ now = DateTime(2024, 6, 1, 0, 0, 0)) =>
             /\ from_dt = DateTime(2009, 6, 1, 0, 0, 0)
             /\ to_dt = DateTime(2024, 6, 1, 0, 0, 0)
        /\ (history_years = 15 /\ now = DateTime(2024, 2, 29, 12, 0, 0)) =>
             /\ from_dt = DateTime(2009, 2, 28, 12, 0, 0)
             /\ to_dt = DateTime(2024, 2, 29, 12, 0, 0)

FullBackfillWindowWitness ==
    /\ Fetching
    /\ window = "hourly"
    /\ NoCachedData
    /\ history_years = 15
    /\ now = DateTime(2024, 6, 1, 0, 0, 0)
    /\ from_dt = DateTime(2009, 6, 1, 0, 0, 0)
    /\ to_dt = now

(***************************************************************************)
(* C7. Delta window: in an hourly run, a sensor with cached maximum        *)
(* max_date is fetched with the window [max_date - overlap, now]; for      *)
(* max_date = 2024-05-30, overlap = 48 h and now = 2024-06-01 that is      *)
(* [2024-05-28, 2024-06-01].  As claimed, for every cached state:          *)
(***************************************************************************)
DeltaWindowAnyCache ==
    (Fetching /\ window = "hourly" /\ cached_max # None) =>
        /\ from_dt = cached_max[1].t - refresh_overlap_seconds
        /\ to_dt = now

(***************************************************************************)
(* C7, as the code has it: the window is [max_date - overlap, now] when    *)
(* the cached minimum is not later than now - historyYears (or             *)
(* historyYears is 0) and max_date - overlap is not later than now; when   *)
(* max_date - overlap is later than now the window is [now - overlap,      *)
(* now].  (The cached dates are naive datetimes.)                          *)
(***************************************************************************)
HasFullHistory ==
    /\ cached_max # None
    /\ ~cached_max[1].aware
    /\ \/ history_years = 0
       \/ /\ cached_min # None
          /\ ~cached_min[1].aware
          /\ cached_min[1].t <= MinusYears(now, history_years)

DeltaWindow ==
    (Planned /\ window = "hourly" /\ HasFullHistory) =>
        /\ outcome = "fetch"
        /\ to_dt = now
        /\ from_dt = IF cached_max[1].t - refresh_overlap_seconds <= now
                        THEN cached_max[1].t - refresh_overlap_seconds
                        ELSE now - refresh_overlap_seconds
        /\ (/\ cached_max[1].t = DateTime(2024, 5, 30, 0, 0, 0)
            /\ refresh_overlap_seconds = 48 * 3600
            /\ now = DateTime(2024, 6, 1, 0, 0, 0)) =>
             /\ from_dt = DateTime(2024, 5, 28, 0, 0, 0)
             /\ to_dt = DateTime(2024, 6, 1, 0, 0, 0)

DeltaWindowWitness ==
    /\ Fetching
    /\ window = "hourly"
    /\ HasFullHistory
    /\ history_years = 15
    /\ cached_max[1].t = DateTime(2024, 5, 30, 0, 0, 0)
    /\ refresh_overlap_seconds = 48 * 3600
    /\ now = DateTime(2024, 6, 1, 0, 0, 0)
    /\ from_dt = DateTime(2024, 5, 28, 0, 0, 0)

(***************************************************************************)
(* C8. Partial backfill: in an hourly run, a sensor whose cached minimum   *)
(* exists and is later than now - historyYears is fetched with the window  *)
(* [now - historyYears, cached_min].  As claimed, for every historyYears:  *)
(***************************************************************************)
PartialBackfillAnyYears ==
    (/\ Fetching
     /\ window = "hourly"
     /\ cached_min # None
     /\ cached_min[1].t > MinusYears(now, history_years)) =>
        /\ from_dt = MinusYears(now, history_years)
        /\ to_dt = cached_min[1].t

(***************************************************************************)
(* C8, as the code has it: the same, for historyYears other than 0 (with   *)
(* historyYears = 0 there is no backfill and the delta window is used).    *)
(***************************************************************************)
PartialBackfillWindow ==
    (/\ Fetching
     /\ window = "hourly"
     /\ history_years # 0
     /\ cached_min # None
     /\ cached_min[1].t > MinusYears(now, history_years)) =>
        /\ from_dt = MinusYears(now, history_years)
        /\ to_dt = cached_min[1].t
        /\ (/\ history_years = 15
            /\ now = DateTime(2024, 6, 1, 0, 0, 0)
            /\ cached_min[1].t = DateTime(2020, 1, 1, 0, 0, 0)) =>
             /\ from_dt = DateTime(2009, 6, 1, 0, 0, 0)
             /\ to_dt = DateTime(2020, 1, 1, 0, 0, 0)

PartialBackfillWindowWitness ==
    /\ Fetching
    /\ window = "hourly"
    /\ history_years = 15
    /\ now = DateTime(2024, 6, 1, 0, 0, 0)
    /\ cached_min # None
    /\ cached_min[1].t = DateTime(2020, 1, 1, 0, 0, 0)
    /\ from_dt = DateTime(2009, 6, 1, 0, 0, 0)
    /\ to_dt = DateTime(2020, 1, 1, 0, 0, 0)

(***************************************************************************)
(* C9. Weekly sweep window: in a weekly run every sensor is fetched with   *)
(* the window [now - lookback, now], whatever its cached dates are.  As    *)
(* claimed, for every lookback:                                            *)
(***************************************************************************)
WeeklyWindowAnyLookback ==
    (Planned /\ window = "weekly") =>
        /\ outcome = "fetch"
        /\ from_dt = now - weekly_sweep_lookback_seconds
        /\ to_dt = now

(***************************************************************************)
(* C9, as the code has it: every sensor is fetched, whatever its cached    *)
(* dates are, with [now - lookback, now] when lookback >= 0 and with       *)
(* [now, now] when lookback is negative.                                   *)
(***************************************************************************)
WeeklyWindow ==
    (Planned /\ window = "weekly") =>
        /\ outcome = "fetch"
        /\ to_dt = now
        /\ from_dt = IF weekly_sweep_lookback_seconds >= 0
                        THEN now - weekly_sweep_lookback_seconds
                        ELSE now

WeeklyWindowWitness ==
    /\ Fetching
    /\ window = "weekly"
    /\ weekly_sweep_lookback_seconds = 604800
    /\ cached_max # None
    /\ cached_max[1].t > now
    /\ from_dt = now - 604800
    /\ to_dt = now

(***************************************************************************)
(* C10. No inverted range: every call of fetch_sensor_data(sensor, from,   *)
(* to) made by the coordinator has from <= to, in hourly and weekly runs,  *)
(* for every cached state and every configured overlap, lookback and       *)
(* historyYears.                                                           *)
(***************************************************************************)
NoInvertedRange == Fetching => from_dt <= to_dt

(***************************************************************************)
(* C11. Per-sensor failure isolation: a failure at any step of run_one is  *)
(* caught inside run_one: no sensor task ends with an exception, so gather *)
(* never raises out of _refresh_targets and fails the run.                 *)
(***************************************************************************)
PerSensorFailureIsolated == \A k \in Pools : tasks[k]["raised"] = 0

(***************************************************************************)
(* C12. Retry exhaustion is an error: a _make_request call whose every     *)
(* attempt, up to the maximum number of attempts, ended in a 5xx or 504    *)
(* response or a timeout ends in an error, never in a normal return.       *)
(***************************************************************************)
Exhausted ==
    /\ req_pc \in {"returned", "raised"}
    /\ Len(responses) = MaxRetries
    /\ \A i \in 1..Len(responses) : responses[i] \in ServerErrors \cup {"504", "timeout"}

RetryExhaustionIsError == Exhausted => (req_pc = "raised" /\ req_result = "error")

(***************************************************************************)
(* C13. Sync-state merge rule: after an upsert_sync_state on a sensor that *)
(* already has a row, a null max_date or a null last_success_at leaves the *)
(* stored value as it was and a non-null one replaces it, while            *)
(* last_attempt_at and last_error always take the supplied value, a null   *)
(* last_error included.                                                    *)
(***************************************************************************)
SyncCallMade == sync_call.sensor_id \in Sensors

SyncMergeRule ==
    SyncCallMade =>
        LET row == sync_state[sync_call.sensor_id]
        IN  /\ row.present
            /\ row.last_attempt_at = sync_call.last_attempt_at
            /\ row.last_error = sync_call.last_error
            /\ sync_call.max_date # None => row.max_date = sync_call.max_date
            /\ sync_call.last_success_at # None =>
                   row.last_success_at = sync_call.last_success_at
            /\ (sync_before.present /\ sync_call.max_date = None) =>
                   row.max_date = sync_before.max_date
            /\ (sync_before.present /\ sync_call.last_success_at = None) =>
                   row.last_success_at = sync_before.last_success_at

\* a failure write (null max_date, null last_success_at) met a row that held
\* both and the error of an earlier failure
SyncMergeRuleWitness ==
    /\ SyncCallMade
    /\ sync_call.max_date = None /\ sync_call.last_success_at = None
    /\ sync_before.present
    /\ sync_before.max_date # None /\ sync_before.last_success_at # None
    /\ sync_before.last_error # None /\ sync_before.last_error # sync_call.last_error
    /\ sync_state[sync_call.sensor_id].max_date = sync_before.max_date
    /\ sync_state[sync_call.sensor_id].last_success_at = sync_before.last_success_at
    /\ sync_state[sync_call.sensor_id].last_error = sync_call.last_error

(***************************************************************************)
(* C14. Job outcome recording, as claimed: every run that ended in an      *)
(* exception has recorded JobState for its kind with last_error set to the *)
(* error it caught and last_run_at set to its start, with the stored       *)
(* last_success_at left as it was.                                         *)
(***************************************************************************)
JobRow == job_state[job_kind]

FailureRecorded ==
    /\ JobRow.present
    /\ JobRow.last_error = job_error
    /\ JobRow.last_run_at = <<started_at>>
    /\ JobRow.last_success_at = job_before.last_success_at

SuccessRecorded ==
    /\ JobRow.present
    /\ JobRow.last_success_at = <<finished_at>>
    /\ JobRow.last_run_at = <<started_at>>
    /\ JobRow.last_error = None

LastSuccessKept ==
    job_before.last_success_at # None =>
        /\ JobRow.last_success_at # None
        /\ JobRow.last_success_at[1] >= job_before.last_success_at[1]

RankingReadAfterWrite ==
    \A key \in RankingKeys :
        LET got == get_city_ranking(city_rankings, key)
        IN  /\ got.found = last_payload[key].stored
            /\ got.found => got.cities = last_payload[key].cities

\* a request that had computed one list of cities has returned the list stored
\* last for its key, which is another one, while another key was never upserted
RankingReadAfterWriteWitness ==
    \E r \in RankingRequests, other \in RankingKeys :
        /\ rk_pc[r] = "done"
        /\ rk_response[r].found
        /\ rk_response[r].cities = last_payload[rk_key[r]].cities
        /\ Len(rk_response[r].cities) = 2
        /\ Len(rk_result[r]) = 1
        /\ ~last_payload[other].stored

(***************************************************************************)
(* C16. Completeness gate: in a computed ranking of the year a station-day *)
(* of a station with a city counts for its city if and only if it has at   *)
(* least 18 rows with a non-null value: the city's days_with_data and      *)
(* stations_count count exactly those station-days, a city without one is  *)
(* not listed, and a station-day below the gate adds nothing to the        *)
(* exceedances of its city.  Rows with a null value never count.           *)
(***************************************************************************)
NonNullCount(st, d) ==
    Cardinality({i \in DOMAIN hourly[st][d] : hourly[st][d][i] # None})

PassesGate(st, d) == NonNullCount(st, d) >= 18

HasValueAbove(st, d, threshold) ==
    \E i \in DOMAIN hourly[st][d] :
        hourly[st][d][i] # None /\ hourly[st][d][i][1] > threshold

StationsOf(city) == {st \in RankStations : station_city[st] = city}

GatedDays(city) == {d \in RankDays : \E st \in StationsOf(city) : PassesGate(st, d)}

GatedStations(city) == {st \in StationsOf(city) : \E d \in RankDays : PassesGate(st, d)}

Listed(city) == \E i \in DOMAIN ranking.cities : ranking.cities[i].city = city

RowOf(city) == ranking.cities[CHOOSE i \in DOMAIN ranking.cities :
                                  ranking.cities[i].city = city]

CompletenessGate ==
    (ranking.computed /\ ranking.year = 2023) =>
        \A n \in DOMAIN CityNames :
            LET city == CityNames[n]
            IN  /\ Listed(city) <=> GatedDays(city) # {}
                /\ Listed(city) =>
                      /\ RowOf(city).days_with_data = Cardinality(GatedDays(city))
                      /\ RowOf(city).stations_count = Cardinality(GatedStations(city))
                      /\ (\A st \in StationsOf(city), d \in RankDays :
                              PassesGate(st, d) => ~HasValueAbove(st, d, 45))
                         => RowOf(city).exceedance_days = 0

\* a city has a station-day with 18 values, all low, that counts, and another
\* one with 17 values above the threshold and 7 null rows that does not
CompletenessGateWitness ==
    /\ ranking.computed /\ ranking.year = 2023
    /\ \E city \in {"CityA", "CityB"} :
          /\ Listed(city)
          /\ RowOf(city).exceedance_days = 0
          /\ \E st \in StationsOf(city), d \in RankDays :
                NonNullCount(st, d) = 18
          /\ \E st \in StationsOf(city), d \in RankDays :
                /\ NonNullCount(st, d) = 17
                /\ Len(hourly[st][d]) = 24
                /\ HasValueAbove(st, d, 45)
                /\ RowOf(city).days_with_data < Cardinality(
                       {x \in RankDays : \E y \in StationsOf(city) : hourly[y][x] # << >>})

(***************************************************************************)
(* C17. Ranking order: in a computed ranking, of any two cities the one    *)
(* listed first has more exceedance days, or as many and a higher          *)
(* exceedance percentage, or as many, the same percentage and the smaller  *)
(* name; the i-th city of the list has rank i.                             *)
(***************************************************************************)
RankingOrder ==
    ranking.computed =>
        /\ \A i \in DOMAIN ranking.cities : ranking.cities[i].rank = i
        /\ \A i, j \in DOMAIN ranking.cities :
              i < j =>
                  LET a == ranking.cities[i]
                      b == ranking.cities[j]
                  IN  /\ a.exceedance_days >= b.exceedance_days
                      /\ a.exceedance_days = b.exceedance_days =>
                            a.exceedance_pct >= b.exceedance_pct
                      /\ (/\ a.exceedance_days = b.exceedance_days
                          /\ a.exceedance_pct = b.exceedance_pct) =>
                            NameIndex(a.city) < NameIndex(b.city)

\* three cities: the last by name is first with more exceedance days, the
\* other two tie on days and percentage and follow by name
RankingOrderWitness ==
    /\ ranking.computed
    /\ Len(ranking.cities) = 3
    /\ ranking.cities[1].city = "CityC"
    /\ ranking.cities[1].exceedance_days > ranking.cities[2].exceedance_days
    /\ ranking.cities[2].exceedance_days = ranking.cities[3].exceedance_days
    /\ ranking.cities[2].exceedance_pct = ranking.cities[3].exceedance_pct
    /\ ranking.cities[2].city = "CityA"
    /\ ranking.cities[3].city = "CityB"
    /\ ranking.cities[3].rank = 3

(***************************************************************************)
(* C18. End-to-end ranking, as claimed: with 20 of the 24 hourly values of *)
(* 2023-06-01 above 45 for CityA's one station and 10 of 24 above 45 for   *)
(* CityB's, compute_year_ranking(2023, PM10, city_avg) lists CityA with    *)
(* exceedance_days = 1 above CityB with exceedance_days = 0.               *)
(***************************************************************************)
ValuesAbove(st, d, threshold) ==
    Cardinality({i \in DOMAIN hourly[st][d] :
                    hourly[st][d][i] # None /\ hourly[st][d][i][1] > threshold})

ExampleSeeded ==
    /\ station_city[1] = "CityA" /\ station_city[2] = "CityB"
    /\ StationsOf("CityA") = {1} /\ StationsOf("CityB") = {2}
    /\ ValuesAbove(1, 1, 45) = 20
    /\ ValuesAbove(2, 1, 45) = 10
    /\ \A st \in RankStations, d \in RankDays :
          <<st, d>> \notin {<<1, 1>>, <<2, 1>>} => hourly[st][d] = << >>

ExampleComputed ==
    /\ ExampleSeeded
    /\ ranking.computed /\ ranking.year = 2023 /\ ranking.method = "city_avg"

ExampleRanksBothCities ==
    ExampleComputed =>
        \E i, j \in DOMAIN ranking.cities :
            /\ i < j
            /\ ranking.cities[i].city = "CityA"
            /\ ranking.cities[i].exceedance_days = 1
            /\ ranking.cities[j].city = "CityB"
            /\ ranking.cities[j].exceedance_days = 0

(***************************************************************************)
(* C18. End-to-end ranking: with 20 hourly values of 2023-06-01, all above *)
(* 45, for CityA's one station and 10 values, all above 45, for CityB's,   *)
(* and no value for the other hours, compute_year_ranking(2023, PM10,      *)
(* city_avg) lists CityA alone, with rank 1 and exceedance_days = 1: the   *)
(* day of CityB has fewer than 18 values, so CityB has no row.             *)
(***************************************************************************)
ExampleHoursMissing == NonNullCount(1, 1) = 20 /\ NonNullCount(2, 1) = 10

ExampleRanksCityA ==
    (ExampleComputed /\ ExampleHoursMissing) =>
        /\ Len(ranking.cities) = 1
        /\ ranking.cities[1].city = "CityA"
        /\ ranking.cities[1].rank = 1
        /\ ranking.cities[1].exceedance_days = 1
        /\ ranking.cities[1].days_with_data = 1
        /\ ~Listed("CityB")

ExampleRanksCityAWitness ==
    /\ ExampleComputed
    /\ ExampleHoursMissing
    /\ Listed("CityA")
    /\ RowOf("CityA").exceedance_days = 1

(***************************************************************************)
(* C19. Trend freshness: a compute_trends call that covers the current     *)
(* year recomputes it if there is no cached entry for it or if the entry   *)
(* is older than the TTL of 3600 seconds (7200 seconds, say), and leaves   *)
(* it alone if the entry is younger than the TTL (1800 seconds, say).      *)
(***************************************************************************)
TrendFreshness ==
    (trend_call.made /\ trend_call.covered) =>
        /\ trend_call.entry_age = -1 => trend_call.recomputed
        /\ trend_call.entry_age > 3600 => trend_call.recomputed
        /\ (trend_call.entry_age >= 0 /\ trend_call.entry_age < 3600) =>
              ~trend_call.recomputed

\* an entry computed two hours before was recomputed, after a call had left
\* it alone when it was younger than an hour
TrendFreshnessWitness ==
    /\ trend_call.made /\ trend_call.covered
    /\ trend_call.entry_age = 7200
    /\ trend_call.recomputed
    /\ trend_skipped
    /\ \E r \in annual_stats : r.year = current_year /\ r.computed_at = trend_now

(***************************************************************************)
(* C20.  Cache-only invariant as stated: the upstream client is called     *)
(* only from RefreshCoordinator job runs, by no other component, at any    *)
(* point of the process lifetime.  Every logged call would then be a job   *)
(* run's.  It is not: startup_event calls fetch_all_stations itself when   *)
(* no station is cached, and scripts/fill_gaps.py calls fetch_sensor_data. *)
(***************************************************************************)
OnlyJobRunsCallUpstream ==
    \A c \in upstream_calls : c.by = "job"

(***************************************************************************)
(* C20, as the code has it: every call on the upstream client is made by a *)
(* RefreshCoordinator job run, by the startup hook fetching the station    *)
(* list (fetch_all_stations, when no station is cached), or by the offline *)
(* fill_gaps script; no route handler ever calls it, whatever the cache    *)
(* holds.                                                                  *)
(***************************************************************************)
RequestPathIsCacheOnly ==
    \A c \in upstream_calls :
        \/ c.by = "job"
        \/ c = UpstreamCall("startup", "fetch_all_stations")
        \/ c = UpstreamCall("script", "fetch_sensor_data")

\* The process started with no station cached and fetched the list, a /data
\* request met a station without cached sensors, a job run then fetched the
\* sensors and their data, and /data was served again.
RequestPathIsCacheOnlyWitness ==
    /\ UpstreamCall("startup", "fetch_all_stations") \in upstream_calls
    /\ UpstreamCall("job", "fetch_station_sensors") \in upstream_calls
    /\ UpstreamCall("job", "fetch_sensor_data") \in upstream_calls
    /\ route_missed
    /\ sensors_cached
    /\ api_job = "none"
    /\ last_route = "/data"

(***************************************************************************)
(* C21. Unavailable upstream surfaces per sensor: when every archival      *)
(* request of a sensor's fetch failed (its retries used up, or its last    *)
(* attempt raised), run_one's outcome for the sensor is an error: it is    *)
(* not counted as updated, it carries an error message, and its sync_state *)
(* gets a non-null last_error and no new last_success_at.                  *)
(***************************************************************************)
UpstreamUnavailable ==
    /\ Len(sent) > 0
    /\ \A i \in 1..Len(sent) : sent[i].kind \in {"empty", "error"}

UnavailableIsSensorError ==
    (fetch_pc = "done" /\ UpstreamUnavailable) =>
        /\ ~run_result.updated_ok
        /\ run_result.err # None
        /\ fetch_sync.last_error # None
        /\ ~fetch_sync.new_success

(***************************************************************************)
(* C29. Date-range chunking: the requests of one fetch_sensor_data call go *)
(* chunk after chunk, each chunk spans at most 366 days, the chunks cover  *)
(* the window from its start to its end, and the dateFrom sent for a chunk *)
(* is strictly later than the dateTo sent for the chunk before it.         *)
(***************************************************************************)
ChunkingNoOverlap ==
    /\ \A i \in 1..Len(sent) :
         /\ sent[i].dateTo - sent[i].dateFrom <= Days(366)
         /\ i > 1 => sent[i].chunk \in {sent[i - 1].chunk, sent[i - 1].chunk + 1}
    /\ \A i, j \in 1..Len(sent) :
         sent[j].chunk = sent[i].chunk + 1 => sent[j].dateFrom > sent[i].dateTo
    /\ (fetch_pc = "returned" /\ Len(sent) > 0) =>
         /\ sent[1].dateFrom = FormatMinute(start_date)
         /\ sent[Len(sent)].dateTo = FormatMinute(end_date)

(***************************************************************************)
(* C30. Archival pagination: within one chunk the pages are requested in   *)
(* the order 0, 1, 2, ..., no page is requested after an empty one, and    *)
(* the result is the concatenation of the pages in page order.             *)
(***************************************************************************)
PagingStopsAtEmptyPage ==
    /\ \A i \in 1..Len(sent) :
         /\ sent[i].page = (IF i > 1 /\ sent[i - 1].chunk = sent[i].chunk
                            THEN sent[i - 1].page + 1 ELSE 0)
         /\ (i > 1 /\ sent[i - 1].chunk = sent[i].chunk) => sent[i - 1].count > 0
    /\ \A m, n \in 1..Len(all_measurements) :
         m < n => \/ all_measurements[m][1] < all_measurements[n][1]
                  \/ /\ all_measurements[m][1] = all_measurements[n][1]
                     /\ all_measurements[m][2] <= all_measurements[n][2]

(***************************************************************************)
(* C22. 429 handling: a retry after a 429 response does not consume one of *)
(* the request's counted attempts.  The attempt counter equals the number  *)
(* of responses other than 429 received so far, and a call gives up only   *)
(* when that number has reached the maximum: 429 responses followed by a   *)
(* 200 never end in the empty result of a used-up budget.                  *)
(***************************************************************************)
CountedAttempts ==
    Cardinality({i \in 1..Len(responses) : responses[i] # "429"})

RateLimitRetryIsFree ==
    /\ req_pc = "send" => attempt = CountedAttempts
    /\ req_result = "empty" => CountedAttempts = MaxRetries

(***************************************************************************)
(* C23. JobState is persisted after every run: every run of _run_job that  *)
(* has ended, by returning, by an exception or by cancellation, has        *)
(* written a JobState row for its kind whose last_run_at is the run's      *)
(* start time.                                                             *)
(***************************************************************************)
JobStatePersistedAfterEveryRun ==
    job_pc \in {"returned", "raised", "cancelled"} =>
        /\ job_wrote
        /\ JobRow.present
        /\ JobRow.last_run_at = <<started_at>>

(***************************************************************************)
(* C24. Past years are computed once, as stated: once a compute_trends     *)
(* call has computed a year earlier than the current year, no later call   *)
(* computes that year again or changes its rows, whether or not the        *)
(* computation produced any city rows.                                     *)
(***************************************************************************)
PastYearsComputedOnceAlways ==
    trend_now >= 0 =>
        \A y \in TrendYears :
            past_done[y].done =>
                /\ y \notin past_redone
                /\ RowsOf(annual_stats, y) = past_done[y].rows

(***************************************************************************)
(* C24, as the code has it: once a compute_trends call has computed a year *)
(* earlier than the current year and stored at least one city row for it,  *)
(* no later call computes that year again or changes its rows, whatever    *)
(* happens to the measurements of that year in between.                    *)
(***************************************************************************)
PastYearsComputedOnce ==
    trend_now >= 0 =>
        \A y \in TrendYears :
            (past_done[y].done /\ past_done[y].rows # {}) =>
                /\ y \notin past_redone
                /\ RowsOf(annual_stats, y) = past_done[y].rows

\* a later call, at a later time, has left a computed past year alone although
\* a refresh had changed what the year's query yields
PastYearsComputedOnceWitness ==
    /\ trend_call.made
    /\ \E y \in TrendYears :
         /\ y < current_year
         /\ past_done[y].done
         /\ past_done[y].rows # {}
         /\ y \in past_kept
         /\ Cities(RowsOf(annual_stats, y)) # year_result[y]
         /\ \A r \in RowsOf(annual_stats, y) : r.computed_at < trend_now

(***************************************************************************)
(* C25. Sensor resolution by job kind, as stated: an hourly run resolves a *)
(* station's sensors from the cache only and never calls                   *)
(* fetch_station_sensors, also when the cache holds none; a weekly run     *)
(* always refetches the list from upstream.                                *)
(***************************************************************************)
HourlyNeverFetchesSensors ==
    resolution.made =>
        (resolution.source = "upstream") = resolution.force_refresh

(***************************************************************************)
(* C25, as the code has it: an hourly run takes a station's sensors from   *)
(* the cache when the cache holds some and calls fetch_station_sensors     *)
(* when it holds none; a weekly run always refetches the list from         *)
(* upstream and never uses the cached one.                                 *)
(***************************************************************************)
SensorResolutionByKind ==
    resolution.made =>
        /\ resolution.force_refresh => resolution.source = "upstream"
        /\ ~resolution.force_refresh =>
              (resolution.source = "upstream") = ~resolution.cached
        /\ resolution.source = "upstream" =>
              UpstreamCall("job", "fetch_station_sensors") \in upstream_calls

\* an hourly run in progress has met a station without cached sensors and
\* fetched its list from upstream
SensorResolutionByKindWitness ==
    /\ resolution.made
    /\ ~resolution.force_refresh
    /\ ~resolution.cached
    /\ resolution.source = "upstream"
    /\ api_job \in JobTriggers /\ ~IsWeekly(api_job)

(***************************************************************************)
(* C28. Stop terminates cleanly: once stop() has been called, in whatever  *)
(* state, both loops eventually have ended and every sensor task of their  *)
(* runs that was cancelled has ended; and at all times the run lock is     *)
(* held only while some run is inside _run_job and the semaphore's permits *)
(* are missing only for sensor tasks inside its body, so that with the     *)
(* loops ended the lock and the permits are free for a later manual run.   *)
(***************************************************************************)
LoopsEnded ==
    /\ \A p \in Loops : pc[p] \in {"not_started", "exited"}
    /\ \A p \in Loops : tasks[p] = NoTasks
    /\ \A q \in TaskPcs : tasks["left_cancelled"][q] = 0

LockHeldByARun == run_lock.locked = (\E p \in Callers : pc[p] \in InRun)

PermitsHeldByTasks ==
    sem.created => sem.value + InBodyCount = Max(1, refresh_concurrency)

HourlyLoopProgress ==
    /\ hourly_log.first_call # Never => hourly_log.first_call = hourly_log.started
    /\ loop_pc["hourly"] = "wait" =>
           /\ hourly_log.outcome \in {"ok", "raised"}
           /\ deadline["hourly"] =
                  hourly_log.ended_at +
                  (IF HourlyInterval - (hourly_log.ended_at - hourly_log.began_at) > 0
                      THEN HourlyInterval - (hourly_log.ended_at - hourly_log.began_at)
                      ELSE 0)
    /\ (loop_pc["hourly"] \in {"call", "run"} /\ hourly_log.runs >= 1) =>
           hourly_log.began_at = deadline["hourly"]
    /\ loop_pc["hourly"] = "exited" => stop_event

\* a second run has raised after taking part of the interval, and the loop
\* is waiting out the rest of it
HourlyLoopProgressWitness ==
    /\ ~stop_event
    /\ loop_pc["hourly"] = "wait"
    /\ hourly_log.runs = 2
    /\ hourly_log.outcome = "raised"
    /\ hourly_log.ended_at > hourly_log.began_at
    /\ deadline["hourly"] > wall
    /\ deadline["hourly"] < hourly_log.ended_at + HourlyInterval

\* the latest poll of the weekly loop called run_weekly_once if and only if
\* it read no last_success_at, or one at least weekly_interval before its now
DueCheckDecides ==
    poll_log.made =>
        (poll_log.started <=>
            \/ poll_log.last_success = Never
            \/ poll_log.now - poll_log.last_success >= WeeklyInterval)

\* a sweep that failed has left last_success_at as it was, and the weekly
\* loop that ran it is waiting for its next poll
FailedSweepKeepsSuccess ==
    (sweep_log.ended /\ ~sweep_log.ok) =>
        sweep_log.success_after = sweep_log.success_before

\* a sweep of the weekly loop that is running began with no last_success_at
\* recorded, or weekly_interval or more after it
NoEarlyLoopSweep ==
    lock_holder = "weekly" =>
        \/ weekly_success_at = Never
        \/ sweep_log.began_at - weekly_success_at >= WeeklyInterval

(***************************************************************************)
(* C27. Weekly due check: at each poll the weekly loop starts a sweep if   *)
(* and only if no last_success_at is recorded for weekly_sweep or          *)
(* now - last_success_at >= weekly_interval; a sweep that fails leaves     *)
(* last_success_at unchanged; and after a successful sweep no sweep of the *)
(* weekly loop starts before weekly_interval has elapsed.                  *)
(***************************************************************************)
WeeklyDueCheck ==
    /\ DueCheckDecides
    /\ FailedSweepKeepsSuccess
    /\ NoEarlyLoopSweep

(***************************************************************************)
(* C31. Measurements are never lost by refresh: once initialize() has run, *)
(* every step of the store, which is a cache_measurements call of an       *)
(* hourly run, a weekly sweep or any other caller, leaves every            *)
(* (sensor_id, timestamp) key of the measurements table in the table; the  *)
(* key's row may be replaced by one with another value.                    *)
(***************************************************************************)
StoredKeys(table) == {Key(r) : r \in table}

MeasurementsNeverLost ==
    [][initialized => StoredKeys(measurements) \subseteq StoredKeys(measurements')]_vars

\* a batch has been written twice in a row, replacing the rows of its keys,
\* beside an older row of another key that is still in the table
MeasurementsNeverLostWitness ==
    /\ initialized
    /\ repeated
    /\ \E r \in measurements : r.id < next_id - Len(last_rows)
    /\ \E r \in measurements : r.id >= next_id - Len(last_rows)

\* a sensor whose latest run_one has ended has a sync_state row whose
\* last_attempt_at was taken during that run_one
AttemptRecorded(s) ==
    (sync_pc[s] = "idle" /\ attempt_at[s] # 0) =>
        /\ sync_state[s].present
        /\ sync_state[s].last_attempt_at # None
        /\ sync_state[s].last_attempt_at[1] >= attempt_at[s]

\* the latest write left what the claim says of a success and of a failure
OutcomeRecorded ==
    SyncCallMade =>
        LET row == sync_state[sync_call.sensor_id]
        IN  IF sync_call.last_error = None
               THEN /\ row.last_error = None
                    /\ row.last_success_at # None
                    /\ row.last_success_at = sync_call.last_success_at
               ELSE /\ row.last_error = sync_call.last_error
                    /\ sync_before.present =>
                           /\ row.max_date = sync_before.max_date
                           /\ row.last_success_at = sync_before.last_success_at

(***************************************************************************)
(* C32. SyncState follows every attempt: every run_one that has ended, in  *)
(* whichever branch and under whichever settings and cached state, has     *)
(* written the sensor's sync_state row with a last_attempt_at taken during *)
(* it; a success leaves last_error null and last_success_at updated, a     *)
(* failure leaves last_error set to the error text and max_date and        *)
(* last_success_at as they were.                                           *)
(***************************************************************************)
SyncStateFollowsAttempt ==
    /\ \A s \in Sensors : AttemptRecorded(s)
    /\ OutcomeRecorded

\* the window run_one has planned
PlannedWindow == [outcome |-> outcome, from_dt |-> from_dt, to_dt |-> to_dt]

\* the measurement ranges a store can hold beside the sensor's sync_state
\* row: with a row whose max_date is MAX(date), any earliest timestamp
RangesUnderSameSyncState ==
    {cached_min} \cup
    (IF cached_max # None /\ synced_max = cached_max
        THEN {<<lo>> : lo \in {d \in Delivered(now) : TextLeq(d, cached_max[1])}}
        ELSE {})

StrictExceedance ==
    city_row.computed =>
        /\ city_row.row.exceedance_days = city_days[<<91, 2>>]
        /\ city_row.row.days_with_data = TotalDays(city_days)
        /\ city_row.row.exceeds_allowed_exceedances <=> city_row.row.exceedance_days >= 19

\* nineteen days above the threshold and one day at it: nineteen exceedance
\* days, over the allowance
StrictExceedanceWitness ==
    /\ city_row.computed
    /\ city_days[<<135, 3>>] = 1
    /\ city_days[<<91, 2>>] = 19
    /\ city_row.row.exceedance_days = 19
    /\ city_row.row.exceeds_allowed_exceedances

\* the rows of the table that hold the key k
RowsOfKey(table, k) == {r \in table : Key(r) = k}

\* this step is initialize() meeting a table that has no unique index
RepairStep == ~unique_idx /\ Initialize

\* this step is initialize() on a store it has initialized before
AgainStep == initialized /\ Initialize

(***************************************************************************)
(* C35. Uniqueness repair: initialize() on a measurements table with no    *)
(* unique index leaves, for every (sensor_id, timestamp) of the table, one *)
(* row, the row of the key that had the highest id; the rows whose key was *)
(* unique are untouched, no row is added, and a later initialize() leaves  *)
(* the table as it is.                                                     *)
(***************************************************************************)
UniquenessRepair ==
    [][/\ RepairStep =>
              /\ measurements' \subseteq measurements
              /\ \A k \in StoredKeys(measurements) :
                     /\ Cardinality(RowsOfKey(measurements', k)) = 1
                     /\ \A kept \in RowsOfKey(measurements', k) :
                            \A r \in RowsOfKey(measurements, k) : r.id <= kept.id
              /\ \A r \in measurements :
                     Cardinality(RowsOfKey(measurements, Key(r))) = 1 => r \in measurements'
       /\ AgainStep => UNCHANGED <<measurements, unique_idx>>]_vars

\* initialize() has deleted duplicates beside the row of another key, and
\* has run again since
UniquenessRepairWitness ==
    /\ reinitialized
    /\ repaired > 0
    /\ Cardinality(StoredKeys(measurements)) >= 2
    /\ last_rows = << >>

\* run_one raised inside its try block and returned (0, False, err)
ReturnedError(r) == ~r.updated_ok /\ ~r.skipped

\* run_one returned (0, False, None) without fetching
ReturnedSkip(r) == r.skipped

\* the error strings of the failed targets, in the order of the targets
ErrorStrings(list) ==
    [k \in 1..Len(SelectSeq(list, ReturnedError)) |-> SelectSeq(list, ReturnedError)[k].err]

\* C36 as stated: in the summary of a completed run updated_sensors +
\* error_count = sensors, error_count is the number of targets that failed,
\* and errors holds the first min(20, error_count) error strings.
SummaryCountsEveryTarget ==
    run_summary.returned =>
        /\ run_summary.updated_sensors + run_summary.error_count = run_summary.sensors
        /\ run_summary.error_count = Len(ErrorStrings(gathered))
        /\ run_summary.errors =
              SubSeq(ErrorStrings(gathered), 1, Min(ERRORS_CAP, run_summary.error_count))

\* C36 amended: a target whose run_one returned without fetching is counted
\* in neither number, so updated_sensors + error_count + (the number of such
\* targets) = sensors; error_count is the number of targets that failed and
\* errors holds the first min(20, error_count) error strings.
SummaryCountsAttemptedTargets ==
    run_summary.returned =>
        /\ run_summary.updated_sensors + run_summary.error_count
              + Len(SelectSeq(gathered, ReturnedSkip)) = run_summary.sensors
        /\ run_summary.error_count = Len(ErrorStrings(gathered))
        /\ run_summary.errors =
              SubSeq(ErrorStrings(gathered), 1, Min(ERRORS_CAP, run_summary.error_count))

SummaryCountsAttemptedTargetsWitness ==
    /\ run_summary.returned
    /\ run_summary.error_count > ERRORS_CAP
    /\ Len(SelectSeq(gathered, ReturnedSkip)) > 0
    /\ run_summary.updated_sensors + run_summary.error_count < run_summary.sensors

\* the run fetches the delta window [cached_max - overlap, now]
DeltaFetched ==
    /\ gap_pc = "fetching"
    /\ gap_cached # {}
    /\ gap_to = gap_now
    /\ gap_from = MaxHourOf(gap_cached) - OverlapHours

MissedInTheMiddle ==
    /\ missed # NoHour
    /\ gap_pc = "idle"
    /\ gap_cached # {}
    /\ MinHourOf(gap_cached) < missed
    /\ missed < MaxHourOf(gap_cached)

\* C38: an hour that a failed chunk in the middle of the full backfill left
\* out is cached by a later hourly run.
NoPermanentGap == MissedInTheMiddle ~> (missed \in gap_cached)

\* C39: a sensor task that has not ended belongs to a caller that is inside
\* its run, and once the run lock is free no task that a run left behind when
\* its gather re-raised is still running.
NoTaskOutlivesRun ==
    /\ \A k \in Callers : \A q \in TaskPcs \ TaskDone :
          tasks[k][q] > 0 => pc[k] \in InRun
    /\ ~run_lock.locked => \A q \in TaskPcs \ TaskDone : tasks["left"][q] = 0

\* the HTTP attempts of the call so far
Attempts == Len(responses)

====
